---- MODULE Spec2Model ----
(***************************************************************************)
(* Additive secure multi-party computation service (mpc_exploration).      *)
(*                                                                         *)
(* Part 1: field arithmetic, polynomial and secret sharing (src/mpc).      *)
(* Part 2: the addition process, its domain requests and its repository    *)
(*         (src/domains/additions).                                        *)
(* Part 3: a single node with its orchestrator and its inbound peer        *)
(*         messages, specification Spec.                                   *)
(* Part 4: the per-message domain and repository of src/routes/addition,   *)
(*         specification SpecRoutes.                                       *)
(* Part 5: share applications to one process, specification SpecApply.     *)
(* Part 6: an ensemble of nodes running the protocol, specification        *)
(*         SpecNet (and SpecNetFair for progress).                         *)
(* Part 7: the outbox of peer messages (src/peer_communication): its       *)
(*         repository, its relayer and its wake-up channel,                *)
(*         specifications SpecOutbox, SpecWakeUp and SpecRepository.       *)
(* Part 8: the senders of peer messages, the one writing to the outbox     *)
(*         and the one writing to the channel of src/communication,        *)
(*         specification SpecSender.                                       *)
(* Part 9: calls of the functions of src/mpc on arguments drawn from       *)
(*         small fields, specification SpecMpc.                            *)
(* Part 10: the background loops, their channels and their heartbeats,     *)
(*         from the first signal to the end of the tasks, specification    *)
(*         SpecLoops.                                                      *)
(***************************************************************************)
EXTENDS Integers, Sequences, FiniteSets, TLC

(***************************************************************************)
(* The field.  The program works modulo 1_000_000_007; products of two     *)
(* such residues do not fit the integers of the model checker, so the      *)
(* model runs the same arithmetic over a small prime field, picked by      *)
(* FieldIdx among SmallPrimes.                                             *)
(***************************************************************************)
FieldIdx == 1

SmallPrimes == <<5, 7, 11, 13>>

PRIME == SmallPrimes[FieldIdx]

\* Result<T, anyhow::Error>
Ok(v) == [ok |-> TRUE, val |-> v]

Err(e) == [ok |-> FALSE, val |-> e]

\* call by value: F of value, value being computed once
Bind(value, F(_)) == CHOOSE out \in {F(v) : v \in {value}} : TRUE

\* the ? operator: the error of result, or F of its value
AndThen(result, F(_)) == Bind(result, LAMBDA r : IF r.ok THEN F(r.val) ELSE r)

\* Rust's % on i128: the remainder has the sign of the dividend.
RustRem(a, n) == IF a >= 0 THEN a % n ELSE 0 - ((0 - a) % n)

\* fn modulo(a: i128, n: u64) -> u64
modulo(a, n) ==
    IF a > 0
    THEN (IF a < n THEN a ELSE a % n)
    ELSE IF a = 0 THEN 0 ELSE n + RustRem(a, n)

RECURSIVE EuclidLoop(_)
\* the while loop of modulo_inv on <<new_r, r, new_t, t>>; returns <<r, t>>
EuclidLoop(s) ==
    LET new_r == s[1]
        r == s[2]
        new_t == s[3]
        t == s[4]
        q == r \div new_r
    IN IF new_r = 0
       THEN <<r, t>>
       ELSE Bind(<<r - q * new_r, new_r, t - q * new_t, new_t>>, EuclidLoop)

EuclidResultUnchecked(e, n) == Ok(modulo(e[2], n))

\* the end of modulo_inv, from the <<r, t>> the loop leaves
EuclidResult(e, n) ==
    IF e[1] # 1 THEN Err("gcd is not one") ELSE Ok(modulo(e[2], n))

\* pub fn modulo_inv(a: u64, n: u64) -> Result<u64, anyhow::Error>
modulo_inv(a, n) ==
    IF a = 0 THEN Err("0 does not have an index")
    ELSE IF a = 1 THEN Ok(1)
    ELSE Bind(EuclidLoop(<<a, n, 1, 0>>), LAMBDA e : EuclidResult(e, n))

RECURSIVE PolynomialNew(_)
\* Polynomial::new: trailing zero coefficients are popped
PolynomialNew(coefficients) ==
    IF Len(coefficients) > 0 /\ coefficients[Len(coefficients)] = 0
    THEN Bind(SubSeq(coefficients, 1, Len(coefficients) - 1), PolynomialNew)
    ELSE coefficients

RECURSIVE EvaluateLoop(_, _, _, _)
\* the for loop of evaluate on s = <<power_of_x, result>>, from the i-th
\* coefficient (1-based) on
EvaluateLoop(coefficients, i, s, x) ==
    LET power_of_x == s[1]
        result == s[2]
        point == x[1]
        m == x[2]
    IN IF i > Len(coefficients)
       THEN result
       ELSE Bind(<<(power_of_x * point) % m,
                   (result + power_of_x * coefficients[i]) % m>>,
                 LAMBDA next : EvaluateLoop(coefficients, i + 1, next, x))

\* Polynomial::evaluate
evaluate(coefficients, point, m) ==
    EvaluateLoop(coefficients, 1, <<1, 0>>, <<point, m>>)

evaluate_at_zero_leading(coefficients) ==
    IF Len(coefficients) = 0 THEN 0 ELSE coefficients[Len(coefficients)]

\* Polynomial::evaluate_at_zero
evaluate_at_zero(coefficients) ==
    IF Len(coefficients) = 0 THEN 0 ELSE coefficients[1]

RECURSIVE RootsLoop(_, _, _, _)
\* the for loop of interpolate_from_roots, from the i-th root (1-based) on
RootsLoop(roots, i, c, n) ==
    IF i > Len(roots)
    THEN c
    ELSE LET root == roots[i]
             neg_root == n - root
         IN Bind([k \in 1..(Len(c) + 1) |->
                    IF k = Len(c) + 1 THEN 1
                    ELSE IF k = 1 THEN (c[1] * neg_root) % n
                    ELSE modulo(c[k - 1] - c[k] * root, n)],
                 LAMBDA next : RootsLoop(roots, i + 1, next, n))

\* Polynomial::interpolate_from_roots
interpolate_from_roots(roots, n) ==
    IF Len(roots) = 0 THEN <<>> ELSE RootsLoop(roots, 1, <<1>>, n)

RECURSIVE DivLoop(_, _, _, _)
\* the for loop of div, iteration i (0-based) of 0..=quotient_degree, on
\* s = <<quotient_coefficients, remainder_coefficients>>, which it returns;
\* x = <<other, inv_lead, n>>
DivLoop(i, quotient_degree, s, x) ==
    LET quo == s[1]
        rem == s[2]
        other == x[1]
        inv_lead == x[2]
        n == x[3]
        other_degree == Len(other) - 1
        leading == rem[Len(rem)]
        qc == (leading * inv_lead) % n
        popped == SubSeq(rem, 1, Len(rem) - 1)
        base == quotient_degree - i
        rem2 == IF qc = 0 THEN popped
                ELSE [k \in 1..Len(popped) |->
                        IF k - 1 >= base /\ k - 1 - base < other_degree
                        THEN modulo(popped[k] - other[k - base] * qc, n)
                        ELSE popped[k]]
        quo2 == IF qc = 0 THEN quo ELSE [quo EXCEPT ![base + 1] = qc]
    IN IF i > quotient_degree
       THEN s
       ELSE Bind(<<quo2, rem2>>,
                 LAMBDA next : DivLoop(i + 1, quotient_degree, next, x))

DivResultWithoutRemainder(qr) == Ok(<<PolynomialNew(qr[1]), <<>>>>)

\* the Polynomials div returns, from the <<quotient, remainder>> of the loop
DivResult(qr) == Ok(<<PolynomialNew(qr[1]), PolynomialNew(qr[2])>>)

\* Polynomial::div: Ok(<<quotient, remainder>>) or Err
div(self, other, n) ==
    IF Len(other) = 0 THEN Err("unable to divide by zero coefficients")
    ELSE IF Len(other) > Len(self) THEN Ok(<<PolynomialNew(<<>>), self>>)
    ELSE AndThen(modulo_inv(other[Len(other)], n),
                 LAMBDA inv_lead :
                     Bind(DivLoop(0, (Len(self) - 1) - (Len(other) - 1),
                                  <<[k \in 1..(1 + (Len(self) - 1)
                                                 - (Len(other) - 1)) |-> 0],
                                    self>>,
                                  <<other, inv_lead, n>>),
                          DivResult))

AddScaledUnweighted(coefficients, numerator, weight, m) ==
    [k \in 1..Len(coefficients) |->
        IF k <= Len(numerator)
        THEN (coefficients[k] + numerator[k]) % m
        ELSE coefficients[k]]

\* coefficients[j] += numerator[j] * weight, for the j of numerator
AddScaled(coefficients, numerator, weight, m) ==
    [k \in 1..Len(coefficients) |->
        IF k <= Len(numerator)
        THEN (coefficients[k] + numerator[k] * weight) % m
        ELSE coefficients[k]]

RECURSIVE InterpolateLoop(_, _, _)
\* the for loop of interpolate over the zipped (point, value) pairs, from
\* the i-th pair (1-based) on; x = <<points, values, master_numerator, m>>
InterpolateLoop(i, coefficients, x) ==
    LET points == x[1]
        values == x[2]
        master_numerator == x[3]
        m == x[4]
    IN IF i > Len(points) \/ i > Len(values)
       THEN Ok(PolynomialNew(coefficients))
       ELSE AndThen(
                div(master_numerator, <<m - points[i], 1>>, m),
                LAMBDA d :
                    AndThen(
                        Bind(evaluate(d[1], points[i], m),
                             LAMBDA denominator : modulo_inv(denominator, m)),
                        LAMBDA inv :
                            Bind(AddScaled(coefficients, d[1],
                                           (values[i] * inv) % m, m),
                                 LAMBDA next : InterpolateLoop(i + 1, next, x))))

interpolate_unchecked_lengths(points, values, m) ==
    Bind(<<points, values, interpolate_from_roots(points, m), m>>,
         LAMBDA x : InterpolateLoop(1, [k \in 1..Len(points) |-> 0], x))

\* Polynomial::interpolate
interpolate(points, values, m) ==
    IF Len(points) # Len(values)
    THEN Err("points and values must have the same length")
    ELSE Bind(<<points, values, interpolate_from_roots(points, m), m>>,
              LAMBDA x : InterpolateLoop(1, [k \in 1..Len(points) |-> 0], x))

split_secret_of_lower_degree(secret, points, n, coeffs) ==
    LET poly == PolynomialNew(<<secret>> \o SubSeq(coeffs, 1, Len(coeffs) - 1))
    IN [pt \in {points[k] : k \in 1..Len(points)} |-> evaluate(poly, pt, n)]

\* mpc::split_secret; coeffs are the values drawn by rand::random::<u64>() % n,
\* one per point after the first.  The result maps each point to its share.
split_secret(secret, points, n, coeffs) ==
    LET poly == PolynomialNew(<<secret>> \o coeffs)
    IN [pt \in {points[k] : k \in 1..Len(points)} |-> evaluate(poly, pt, n)]

\* mpc::recover_secret; shares is a sequence of [point, value]
recover_secret(shares, n) ==
    Bind(shares, LAMBDA s :
        AndThen(interpolate([k \in 1..Len(s) |-> s[k].point],
                            [k \in 1..Len(s) |-> s[k].value], n),
                LAMBDA poly : Ok(evaluate_at_zero(poly))))


(***************************************************************************)
(* Part 2: the addition process (src/domains/additions).                   *)
(***************************************************************************)

\* Option<T>
None == [some |-> FALSE]

Some(v) == [some |-> TRUE, val |-> v]

\* HashMap<K, V> as a function on its key set
EmptyMap == [k \in {} |-> 0]

\* HashMap::insert of every entry of additions (an existing key is overwritten)
MapInsertAll(base, additions) ==
    [k \in (DOMAIN base) \cup (DOMAIN additions) |->
        IF k \in DOMAIN additions THEN additions[k] ELSE base[k]]

\* HashMap::remove
MapRemove(base, key) == [k \in (DOMAIN base) \ {key} |-> base[k]]

RECURSIVE SumValues(_)
\* map.values().map(u128::from).sum::<u128>()
SumValues(map) ==
    IF DOMAIN map = {} THEN 0
    ELSE LET k == CHOOSE x \in DOMAIN map : TRUE
         IN map[k] + SumValues(MapRemove(map, k))

RECURSIVE SharesOf(_)
\* the (peer_id, value) entries of a map pushed as Share{point, value},
\* in ascending peer id (the iteration order of a HashMap is unspecified)
SharesOf(map) ==
    IF DOMAIN map = {} THEN <<>>
    ELSE LET k == CHOOSE x \in DOMAIN map : \A y \in DOMAIN map : x <= y
         IN <<[point |-> k, value |-> map[k]]>> \o SharesOf(MapRemove(map, k))

\* enum AdditionProcessState
AwaitingPeerShares == [tag |-> "AwaitingPeerShares"]

AwaitingPeerSharesSum(shares_sum) ==
    [tag |-> "AwaitingPeerSharesSum", shares_sum |-> shares_sum]

Completed(shares_sum, final_sum) ==
    [tag |-> "Completed", shares_sum |-> shares_sum, final_sum |-> final_sum]

\* a bootstrap_process that keeps the input as the node's own share
bootstrap_process_keeping_input(server_peer_id, peer_ids, input, coeffs) ==
    LET all_ids == peer_ids \o <<server_peer_id>>
        input_shares == split_secret(input, all_ids, PRIME, coeffs)
    IN Ok([input |-> input,
           own_share |-> input,
           shares_to_send |-> MapRemove(input_shares, server_peer_id)])

\* bootstrap_process: the input is rand::random::<u16>(), the coefficients are
\* those split_secret draws; both are passed in.  all_ids is peer_ids with
\* server_peer_id pushed last.
bootstrap_process(server_peer_id, peer_ids, input, coeffs) ==
    LET all_ids == peer_ids \o <<server_peer_id>>
        input_shares == split_secret(input, all_ids, PRIME, coeffs)
    IN IF server_peer_id \notin DOMAIN input_shares
       THEN Err("own share missing")
       ELSE Ok([input |-> input,
                own_share |-> input_shares[server_peer_id],
                shares_to_send |-> MapRemove(input_shares, server_peer_id)])

\* CreateProcessRequest::new
CreateProcessRequest(process_id, server_peer_id, peer_ids, input, coeffs) ==
    LET bootstrap == bootstrap_process(server_peer_id, peer_ids, input, coeffs)
    IN IF ~bootstrap.ok THEN bootstrap
       ELSE Ok([process_id |-> process_id,
                input |-> bootstrap.val.input,
                own_share |-> bootstrap.val.own_share,
                shares_to_send |-> bootstrap.val.shares_to_send])

\* ReceiveSharesRequest::new summing the shares it was handed instead of all
\* the shares received
ReceiveSharesRequestSummingAdditions(process, received_shares, peers_count) ==
    IF process.state.tag # "AwaitingPeerShares" THEN Err("InvalidState")
    ELSE LET all_received_shares ==
                 MapInsertAll(process.received_shares, received_shares)
         IN IF Cardinality(DOMAIN all_received_shares) < peers_count
            THEN Ok([process_id |-> process.id,
                     received_shares |-> all_received_shares,
                     computed_shares_sum |-> None])
            ELSE Ok([process_id |-> process.id,
                     received_shares |-> all_received_shares,
                     computed_shares_sum |->
                         Some((SumValues(received_shares)
                               + process.own_share) % PRIME)])

\* ReceiveSharesRequest::new
ReceiveSharesRequest(process, received_shares, peers_count) ==
    IF process.state.tag # "AwaitingPeerShares" THEN Err("InvalidState")
    ELSE LET all_received_shares ==
                 MapInsertAll(process.received_shares, received_shares)
         IN IF Cardinality(DOMAIN all_received_shares) < peers_count
            THEN Ok([process_id |-> process.id,
                     received_shares |-> all_received_shares,
                     computed_shares_sum |-> None])
            ELSE Ok([process_id |-> process.id,
                     received_shares |-> all_received_shares,
                     computed_shares_sum |->
                         Some((SumValues(all_received_shares)
                               + process.own_share) % PRIME)])

\* the first coordinate ReceiveSharesSumsRequest::new hands to recover_secret
OwnSumsCoordinate(process, own_peer_id) ==
    [point |-> own_peer_id, value |-> process.own_share]

\* ReceiveSharesSumsRequest::new
ReceiveSharesSumsRequest(process, received_shares_sums, own_peer_id, peers_count) ==
    IF process.state.tag # "AwaitingPeerSharesSum" THEN Err("InvalidState")
    ELSE LET all_received_shares_sums ==
                 MapInsertAll(process.received_shares_sums, received_shares_sums)
         IN IF Cardinality(DOMAIN all_received_shares_sums) < peers_count
            THEN Ok([process_id |-> process.id,
                     received_shares_sums |-> all_received_shares_sums,
                     final_sum |-> None])
            ELSE Bind(recover_secret(
                          <<OwnSumsCoordinate(process, own_peer_id)>>
                          \o SharesOf(all_received_shares_sums), PRIME),
                      LAMBDA final_sum :
                          IF ~final_sum.ok THEN Err("Unknown")
                          ELSE Ok([process_id |-> process.id,
                                   received_shares_sums |-> all_received_shares_sums,
                                   final_sum |-> Some(final_sum.val)]))

AdditionProcessProgressOfOwnShare(process, caller) ==
    [share |-> process.own_share,
     shares_sum |-> IF process.state.tag = "AwaitingPeerShares"
                    THEN None ELSE Some(process.state.shares_sum)]

\* what GET /additions/{id}/progress answers to caller (AdditionProcessProgress)
AdditionProcessProgress(process, caller) ==
    [share |-> process.shares_to_send[caller],
     shares_sum |-> IF process.state.tag = "AwaitingPeerShares"
                    THEN None ELSE Some(process.state.shares_sum)]

(***************************************************************************)
(* InMemoryAdditionProcessRepository (src/domains/additions/repository.rs).*)
(* Each operation takes the map of processes and returns the result and    *)
(* the map it leaves: one critical section of the RwLock.                  *)
(***************************************************************************)
Reply(result, procs) == [result |-> result, processes |-> procs]

\* get_process
get_process(procs, process_id) ==
    IF process_id \in DOMAIN procs
    THEN Ok(procs[process_id]) ELSE Err("Process not found")

\* get_ongoing_processes
get_ongoing_processes(procs) ==
    {procs[id] : id \in {i \in DOMAIN procs : procs[i].state.tag # "Completed"}}

\* create_process without the look-up of the id: the insert replaces the
\* process that exists
create_process_overwriting(procs, request) ==
    LET process == [id |-> request.process_id,
                    input |-> request.input,
                    own_share |-> request.own_share,
                    shares_to_send |-> request.shares_to_send,
                    received_shares |-> EmptyMap,
                    received_shares_sums |-> EmptyMap,
                    state |-> AwaitingPeerShares]
    IN Reply(Ok(process),
             MapInsertAll(procs, [i \in {request.process_id} |-> process]))

\* create_process
create_process(procs, request) ==
    IF request.process_id \in DOMAIN procs
    THEN Reply(Err("Process with this ID already exists"), procs)
    ELSE LET process == [id |-> request.process_id,
                         input |-> request.input,
                         own_share |-> request.own_share,
                         shares_to_send |-> request.shares_to_send,
                         received_shares |-> EmptyMap,
                         received_shares_sums |-> EmptyMap,
                         state |-> AwaitingPeerShares]
         IN Reply(Ok(process),
                  MapInsertAll(procs, [i \in {request.process_id} |-> process]))

\* receive_shares
receive_shares(procs, request) ==
    IF request.process_id \notin DOMAIN procs
    THEN Reply(Err("Process not found"), procs)
    ELSE LET process == procs[request.process_id]
         IN IF process.state.tag # "AwaitingPeerShares"
            THEN Reply(Err("Process is not in a state to receive shares"), procs)
            ELSE LET merged == MapInsertAll(process.received_shares,
                                            request.received_shares)
                     updated ==
                         IF request.computed_shares_sum.some
                         THEN [process EXCEPT
                                 !.received_shares = merged,
                                 !.received_shares_sums = EmptyMap,
                                 !.state = AwaitingPeerSharesSum(
                                               request.computed_shares_sum.val)]
                         ELSE [process EXCEPT !.received_shares = merged]
                 IN Reply(Ok(updated),
                          [procs EXCEPT ![request.process_id] = updated])

\* receive_shares_sums
receive_shares_sums(procs, request) ==
    IF request.process_id \notin DOMAIN procs
    THEN Reply(Err("Process not found"), procs)
    ELSE LET process == procs[request.process_id]
         IN IF process.state.tag # "AwaitingPeerSharesSum"
            THEN Reply(Err("Process is not in a state to receive shares sums"),
                       procs)
            ELSE LET merged == MapInsertAll(process.received_shares_sums,
                                            request.received_shares_sums)
                     updated ==
                         IF request.final_sum.some
                         THEN [process EXCEPT
                                 !.received_shares_sums = merged,
                                 !.state = Completed(process.state.shares_sum,
                                                     request.final_sum.val)]
                         ELSE [process EXCEPT !.received_shares_sums = merged]
                 IN Reply(Ok(updated),
                          [procs EXCEPT ![request.process_id] = updated])

\* delete_process
delete_process(procs, process_id) == Reply(Ok("deleted"), MapRemove(procs, process_id))


(***************************************************************************)
(* The state.  Each specification below moves the variables of one part    *)
(* and leaves the others as Init sets them.                                *)
(***************************************************************************)
VARIABLES
    processes,          \* InMemoryAdditionProcessRepository.processes
    failures_attempts,  \* AdditionProcessOrchestrator.failures_attempts
    orch_pc,            \* "idle" (awaiting a wake-up), "poll", "apply"
    orch_todo,          \* the processes of this round not polled yet (snapshots)
    orch_request,       \* the request built from a snapshot, not applied yet
    inbound,            \* requests built by peer-message handlers, not applied yet
    outcome             \* what the last operation answered

nodeVars == <<processes, failures_attempts, orch_pc, orch_todo, orch_request,
              inbound, outcome>>

VARIABLES
    rt_processes,   \* InMemoryAdditionRepository.processes
    rt_uuids,       \* the process ids drawn so far, here or by a peer
    rt_inbound,     \* requests built by handlers, not applied yet
    rt_outcome      \* what the last handler answered

routesVars == <<rt_processes, rt_uuids, rt_inbound, rt_outcome>>

VARIABLES
    ap_initial,     \* a process before any share is applied to it
    ap_values,      \* the share of each peer
    ap_union,       \* the peers whose share has been applied so far
    ap_process      \* the process after the applications so far

applyVars == <<ap_initial, ap_values, ap_union, ap_process>>

VARIABLES
    net_processes,  \* the repository of each node of the ensemble
    net_failures,   \* the failures_attempts of each node's orchestrator
    net_msgs        \* the peer messages in the outboxes and on the wire

netVars == <<net_processes, net_failures, net_msgs>>

VARIABLES
    ob_items,       \* InMemoryOutboxRepository.items
    ob_now,         \* what chrono::Utc::now() reads, in seconds
    ob_queue,       \* the wake-up signals queued in the mpsc channel
    ob_calls,       \* enqueue calls that have inserted and not pinged yet
    ob_beat,        \* IntervalPing: "waiting" for its tick or "sending"
    ob_relayer,     \* the relayer: "receiving", or "dispatching" a batch
    ob_dispatches,  \* how many times each item has been dispatched
    ob_reply        \* what the last repository call returned

outboxVars == <<ob_items, ob_now, ob_queue, ob_calls, ob_beat, ob_relayer,
                ob_dispatches, ob_reply>>

VARIABLES
    sd_outbox,   \* envelopes the outbox sender handed to the repository
    sd_channel,  \* envelopes in the channel of the communication manager
    sd_reply     \* the answer of the last send_messages

senderVars == <<sd_outbox, sd_channel, sd_reply>>

VARIABLES
    mp_op,    \* the function of src/mpc being called, "none" between calls
    mp_ints,  \* its scalar arguments
    mp_seqs,  \* its arguments that are sequences
    mp_ok,    \* whether it returned Ok
    mp_out    \* the value it returned, as sequences

mpcVars == <<mp_op, mp_ints, mp_seqs, mp_ok, mp_out>>

VARIABLES
    bg_kind,      \* the loop observed and the send of its heartbeat
    bg_pc,        \* the loop: "receiving", "working" or "ended"
    bg_queue,     \* what waits in the channel of the loop
    bg_senders,   \* the Sender handles of the channel that are not dropped
    bg_receiver,  \* TRUE while the Receiver of the channel is not dropped
    bg_beat,      \* the heartbeat: "waiting", "sending" or "ended"
    bg_result     \* how the last piece of work of the loop ended

loopVars == <<bg_kind, bg_pc, bg_queue, bg_senders, bg_receiver, bg_beat,
              bg_result>>

vars == <<nodeVars, routesVars, applyVars, netVars, outboxVars, senderVars,
          mpcVars, loopVars>>

\* the variables the node of the domains variant leaves alone
notNode ==
    <<routesVars, applyVars, netVars, outboxVars, senderVars, mpcVars,
      loopVars>>

\* the variables the node of the routes variant leaves alone
notRoutes ==
    <<nodeVars, applyVars, netVars, outboxVars, senderVars, mpcVars,
      loopVars>>

\* the variables the applications of shares to one process leave alone
notApply ==
    <<nodeVars, routesVars, netVars, outboxVars, senderVars, mpcVars,
      loopVars>>

\* the variables the ensemble leaves alone
notNet ==
    <<nodeVars, routesVars, applyVars, outboxVars, senderVars, mpcVars,
      loopVars>>

\* the variables the outbox leaves alone
notOutbox ==
    <<nodeVars, routesVars, applyVars, netVars, senderVars, mpcVars,
      loopVars>>

\* what the senders of peer messages leave untouched
notSender ==
    <<nodeVars, routesVars, applyVars, netVars, outboxVars, mpcVars,
      loopVars>>

\* what the calls of src/mpc leave untouched
notMpc ==
    <<nodeVars, routesVars, applyVars, netVars, outboxVars, senderVars,
      loopVars>>

\* what the background loops leave untouched
notLoops ==
    <<nodeVars, routesVars, applyVars, netVars, outboxVars, senderVars,
      mpcVars>>

(***************************************************************************)
(* Part 3: one node.  server_peer_id and the peers are those of the test   *)
(* configuration; the node holds the repository, the orchestrator task     *)
(* and the handlers of the requests in flight.                             *)
(***************************************************************************)
MaxInput == 1

MaxCoeff == 0

MaxShare == 1

MaxInflight == 1

MaxFailures == 5

server_peer_id == 1

peer_ids == <<2, 3>>

PeerIds == {peer_ids[k] : k \in 1..Len(peer_ids)}

\* self.peer_urls.len()
peers_count == Cardinality(PeerIds)

ProcessIds == {"p1"}

\* the values of the X-PEER-ID header of inbound requests: the node's own id,
\* its peers' ids and ids of no configured peer
MaxHeaderId == 4

HeaderIds == 0..MaxHeaderId

Inputs == 0..MaxInput

Coeffs == [1..Len(peer_ids) -> 0..MaxCoeff]

ShareValues == 1..MaxShare

\* every map from a subset of keys to vals
PartialMaps(keys, vals) == UNION {[S -> vals] : S \in SUBSET keys}

NodeInit ==
    /\ processes = EmptyMap
    /\ failures_attempts = EmptyMap
    /\ orch_pc = "idle"
    /\ orch_todo = {}
    /\ orch_request = None
    /\ inbound = {}
    /\ outcome = [op |-> "none", ok |-> TRUE, err |-> "", body |-> None]

Outcome(op, result) ==
    [op |-> op, ok |-> result.ok, err |-> IF result.ok THEN "" ELSE result.val,
     body |-> None]

\* the HTTP answer of a handler that answers with a body
OutcomeWith(op, body) ==
    [op |-> op, ok |-> TRUE, err |-> "", body |-> Some(body)]

\* POST /additions {process_id}: create the process locally
HttpCreateProcess(process_id, input, coeffs) ==
    LET request == CreateProcessRequest(process_id, server_peer_id, peer_ids,
                                        input, coeffs)
        reply == create_process(processes, request.val)
    IN /\ request.ok
       /\ processes' = reply.processes
       /\ outcome' = Outcome("create", reply.result)
       /\ UNCHANGED <<failures_attempts, orch_pc, orch_todo, orch_request,
                      inbound, notNode>>

\* DELETE /additions/{id}
HttpDeleteProcess(process_id) ==
    LET reply == delete_process(processes, process_id)
    IN /\ processes' = reply.processes
       /\ outcome' = Outcome("delete", reply.result)
       /\ UNCHANGED <<failures_attempts, orch_pc, orch_todo, orch_request,
                      inbound, notNode>>

\* a Peer extractor that admits any X-PEER-ID
\* the characters of a header value: decimal digits, other visible characters,
\* and bytes that are no visible ASCII
DigitChars == <<"0", "1", "2", "3", "4", "5", "6", "7", "8", "9">>

DigitValue(char) == (CHOOSE d \in 1..10 : DigitChars[d] = char) - 1

IsDigit(char) == \E d \in 1..10 : DigitChars[d] = char

\* HeaderValue::to_str: only visible ASCII is a string
to_str(text) ==
    IF \E k \in 1..Len(text) : text[k] = "non-ascii"
    THEN Err("Unauthorized")
    ELSE Ok(text)

RECURSIVE ParseDigits(_, _)
ParseDigits(digits, acc) ==
    IF digits = <<>> THEN Ok(acc)
    ELSE IF ~IsDigit(Head(digits)) THEN Err("Unauthorized")
    ELSE ParseDigits(Tail(digits), 10 * acc + DigitValue(Head(digits)))

\* str::parse::<u8>: an optional plus sign, then at least one digit, and a
\* value that fits eight bits
parse_u8_wrapping(text) ==
    Bind(IF text # <<>> /\ Head(text) = "+" THEN Tail(text) ELSE text,
         LAMBDA digits :
             IF digits = <<>> THEN Err("Unauthorized")
             ELSE AndThen(ParseDigits(digits, 0), LAMBDA n : Ok(n % 256)))

parse_u8(text) ==
    Bind(IF text # <<>> /\ Head(text) = "+" THEN Tail(text) ELSE text,
         LAMBDA digits :
             IF digits = <<>> THEN Err("Unauthorized")
             ELSE AndThen(ParseDigits(digits, 0),
                          LAMBDA n : IF n > 255 THEN Err("Unauthorized")
                                     ELSE Ok(n)))

\* the values of the X-PEER-ID header a request can carry, None when it
\* carries none
HeaderTexts ==
    {<<DigitChars[id + 1]>> : id \in HeaderIds}
    \cup {<<>>, <<"x">>, <<"+">>, <<"non-ascii">>, <<"2", "x">>,
          <<"0", "2">>, <<"+", "3">>, <<"2", "5", "8">>}

Headers == {None} \cup {Some(text) : text \in HeaderTexts}

from_request_parts_admitting_any_id(peers, header) ==
    IF ~header.some THEN Err("Unauthorized")
    ELSE AndThen(to_str(header.val), LAMBDA text : parse_u8(text))

\* <Peer as FromRequestParts>::from_request_parts: the X-PEER-ID header,
\* read as a string, parsed as u8 and looked up among the configured peers
from_request_parts(peers, header) ==
    IF ~header.some THEN Err("Unauthorized")
    ELSE AndThen(AndThen(to_str(header.val), LAMBDA text : parse_u8(text)),
                 LAMBDA peer_id :
                     IF \E k \in 1..Len(peers) : peers[k] = peer_id
                     THEN Ok(peer_id)
                     ELSE Err("Unauthorized"))

\* GET /additions/{id}/progress: the Peer extractor admits the caller, the
\* handler reads the process and answers with the progress meant for the caller
HttpGetProgress(process_id, header) ==
    LET peer == from_request_parts(peer_ids, header)
        found == get_process(processes, process_id)
    IN /\ outcome' = IF ~peer.ok THEN Outcome("progress", peer)
                     ELSE IF ~found.ok THEN Outcome("progress", found)
                     ELSE OutcomeWith("progress",
                                      AdditionProcessProgress(found.val, peer.val))
       /\ UNCHANGED <<processes, failures_attempts, orch_pc, orch_todo,
                      orch_request, inbound, notNode>>

\* POST /additions/{id}/receive, first half: the Peer extractor admits the
\* sender, the handler reads the process and builds the request from what it
\* read
PeerMessageRead(process_id, header, kind, value) ==
    LET peer == from_request_parts(peer_ids, header)
        found == get_process(processes, process_id)
        addition == [k \in {peer.val} |-> value]
        request == IF kind = "share"
                   THEN ReceiveSharesRequest(found.val, addition, peers_count)
                   ELSE ReceiveSharesSumsRequest(found.val, addition,
                                                 server_peer_id, peers_count)
    IN /\ Cardinality(inbound) < MaxInflight
       /\ IF ~peer.ok
          THEN /\ outcome' = Outcome("receive_" \o kind, peer)
               /\ UNCHANGED inbound
          ELSE IF ~found.ok
          THEN /\ outcome' = Outcome("receive_" \o kind, found)
               /\ UNCHANGED inbound
          ELSE IF ~request.ok
          THEN /\ outcome' = Outcome("receive_" \o kind, request)
               /\ UNCHANGED inbound
          ELSE /\ inbound' = inbound \cup {[kind |-> kind, request |-> request.val]}
               /\ UNCHANGED outcome
       /\ UNCHANGED <<processes, failures_attempts, orch_pc, orch_todo,
                      orch_request, notNode>>

\* second half: the handler applies its request through the repository
PeerMessageApply(m) ==
    LET reply == IF m.kind = "share"
                 THEN receive_shares(processes, m.request)
                 ELSE receive_shares_sums(processes, m.request)
    IN /\ processes' = reply.processes
       /\ inbound' = inbound \ {m}
       /\ outcome' = Outcome("receive_" \o m.kind, reply.result)
       /\ UNCHANGED <<failures_attempts, orch_pc, orch_todo, orch_request,
                      notNode>>

\* a round that takes every ongoing process, whatever its failures
OrchestratorStartUnfiltered ==
    LET todo == get_ongoing_processes(processes)
    IN /\ orch_pc = "idle"
       /\ orch_todo' = todo
       /\ orch_pc' = IF todo = {} THEN "idle" ELSE "poll"
       /\ UNCHANGED <<processes, failures_attempts, orch_request, inbound,
                      outcome, notNode>>

\* the orchestrator consumes a wake-up: get_ongoing_processes, filtered by
\* failures_attempts
OrchestratorStart ==
    LET raw_processes == get_ongoing_processes(processes)
        todo == {process \in raw_processes :
                    IF process.id \in DOMAIN failures_attempts
                    THEN failures_attempts[process.id] < MaxFailures
                    ELSE TRUE}
    IN /\ orch_pc = "idle"
       /\ orch_todo' = todo
       /\ orch_pc' = IF todo = {} THEN "idle" ELSE "poll"
       /\ UNCHANGED <<processes, failures_attempts, orch_request, inbound,
                      outcome, notNode>>

\* failures_attempts.entry(id).or_insert(0) += 1
RecordFailure(failures, id) ==
    MapInsertAll(failures,
                 [i \in {id} |-> IF id \in DOMAIN failures THEN failures[id] + 1 ELSE 1])

\* poll_for_peer_shares / poll_for_peer_shares_sums up to the request, for
\* the orchestrator of own_peer_id with the peers of peer_urls: fetched is
\* Err when no peer answered, else the map the answers give
PollRequest(own_peer_id, peer_urls, process, fetched) ==
    LET have == IF process.state.tag = "AwaitingPeerShares"
                THEN process.received_shares ELSE process.received_shares_sums
        missing_peer_ids == peer_urls \ DOMAIN have
    IN IF missing_peer_ids = {} THEN Err("unexpected: no missing peer")
       ELSE IF ~fetched.ok THEN fetched
       ELSE IF process.state.tag = "AwaitingPeerShares"
       THEN ReceiveSharesRequest(process, fetched.val, Cardinality(peer_urls))
       ELSE ReceiveSharesSumsRequest(process, fetched.val, own_peer_id,
                                     Cardinality(peer_urls))

\* what fetch_process_progress_from_peers can give for a process: no answer
\* at all, or the shares of the peers that answered (every answer carries a
\* share), or the shares sums of those that answered with one
Fetches(process) ==
    LET have == IF process.state.tag = "AwaitingPeerShares"
                THEN process.received_shares ELSE process.received_shares_sums
        missing_peer_ids == PeerIds \ DOMAIN have
    IN {Err("Failed to fetch progress from any peer")}
       \cup {Ok(f) : f \in {g \in PartialMaps(missing_peer_ids, ShareValues) :
                              process.state.tag = "AwaitingPeerShares"
                                  => DOMAIN g # {}}}

\* the orchestrator polls the peers for one process of the round
OrchestratorPoll(process, fetched) ==
    LET request == PollRequest(server_peer_id, PeerIds, process, fetched)
        todo == orch_todo \ {process}
    IN /\ orch_pc = "poll"
       /\ process \in orch_todo
       /\ orch_todo' = todo
       /\ IF request.ok
          THEN /\ orch_request' = Some([kind |-> process.state.tag,
                                        request |-> request.val])
               /\ orch_pc' = "apply"
               /\ UNCHANGED failures_attempts
          ELSE /\ failures_attempts' = RecordFailure(failures_attempts, process.id)
               /\ orch_pc' = IF todo = {} THEN "idle" ELSE "poll"
               /\ UNCHANGED orch_request
       /\ UNCHANGED <<processes, inbound, outcome, notNode>>

\* an orchestrator that counts consecutive failures: a poll that succeeds
\* clears the counter of its process
OrchestratorApplyClearing ==
    LET m == orch_request.val
        reply == IF m.kind = "AwaitingPeerShares"
                 THEN receive_shares(processes, m.request)
                 ELSE receive_shares_sums(processes, m.request)
    IN /\ orch_pc = "apply"
       /\ processes' = reply.processes
       /\ failures_attempts' = IF reply.result.ok
                               THEN MapRemove(failures_attempts,
                                              m.request.process_id)
                               ELSE RecordFailure(failures_attempts,
                                                  m.request.process_id)
       /\ orch_request' = None
       /\ orch_pc' = IF orch_todo = {} THEN "idle" ELSE "poll"
       /\ UNCHANGED <<orch_todo, inbound, outcome, notNode>>

\* the orchestrator applies the request through the repository
OrchestratorApply ==
    LET m == orch_request.val
        reply == IF m.kind = "AwaitingPeerShares"
                 THEN receive_shares(processes, m.request)
                 ELSE receive_shares_sums(processes, m.request)
    IN /\ orch_pc = "apply"
       /\ processes' = reply.processes
       /\ failures_attempts' = IF reply.result.ok THEN failures_attempts
                               ELSE RecordFailure(failures_attempts,
                                                  m.request.process_id)
       /\ orch_request' = None
       /\ orch_pc' = IF orch_todo = {} THEN "idle" ELSE "poll"
       /\ UNCHANGED <<orch_todo, inbound, outcome, notNode>>

NodeNext ==
    \/ \E id \in ProcessIds, input \in Inputs, coeffs \in Coeffs :
           HttpCreateProcess(id, input, coeffs)
    \/ \E id \in ProcessIds : HttpDeleteProcess(id)
    \/ \E id \in ProcessIds, header \in Headers,
          kind \in {"share", "shares_sum"}, value \in ShareValues :
           PeerMessageRead(id, header, kind, value)
    \/ \E m \in inbound : PeerMessageApply(m)
    \/ OrchestratorStart
    \/ \E process \in orch_todo :
           \E fetched \in Fetches(process) : OrchestratorPoll(process, fetched)
    \/ OrchestratorApply

(***************************************************************************)
(* Part 4: one node of the routes variant (src/routes/addition): every     *)
(* peer message is one handler, which reads the process, builds a request  *)
(* from what it read and applies it; there is no orchestrator.             *)
(***************************************************************************)
MaxHandlers == 2

\* AdditionProcessState::Completed { final_sum }
RoutesCompleted(final_sum) == [tag |-> "Completed", final_sum |-> final_sum]

\* routes CreateProcessRequest::new; process_id is the Uuid::new_v4() it draws
RoutesCreateProcessRequest(process_id, own_peer_id, peers, input, coeffs) ==
    LET bootstrap == bootstrap_process(own_peer_id, peers, input, coeffs)
    IN IF ~bootstrap.ok THEN bootstrap
       ELSE Ok([process_id |-> process_id,
                input |-> bootstrap.val.input,
                own_share |-> bootstrap.val.own_share,
                shares_to_send |-> bootstrap.val.shares_to_send])

\* InitializeProcessRequest built by both reception requests
InitializeProcessRequest(process_id, own_peer_id, peers, from_peer_id, received_value, input, coeffs) ==
    LET bootstrap == bootstrap_process(own_peer_id, peers, input, coeffs)
    IN IF ~bootstrap.ok THEN Err("Unknown")
       ELSE Ok([variant |-> "InitializeProcess",
                process_id |-> process_id,
                input |-> bootstrap.val.input,
                own_share |-> bootstrap.val.own_share,
                shares_to_send |-> bootstrap.val.shares_to_send,
                from_peer_id |-> from_peer_id,
                received_value |-> received_value])

\* ReceiveShareRequest::new
ReceiveShareRequest(process_id, own_peer_id, peers, from_peer_id, received_value, existing_process, input, coeffs) ==
    IF existing_process.some
    THEN LET process == existing_process.val
         IN IF process.state.tag # "AwaitingPeerShares"
            THEN Err("AllSharesReceived")
            ELSE IF from_peer_id \in DOMAIN process.received_shares
            THEN Err("ShareAlreadyReceived")
            ELSE IF Cardinality(DOMAIN process.received_shares) < Len(peers) - 1
            THEN Ok([variant |-> "ReceiveShare",
                     process_id |-> process_id,
                     from_peer_id |-> from_peer_id,
                     received_value |-> received_value])
            ELSE Ok([variant |-> "ReceiveLastShare",
                     process_id |-> process_id,
                     from_peer_id |-> from_peer_id,
                     received_value |-> received_value,
                     computed_shares_sum |->
                         (SumValues(process.received_shares) + process.own_share
                          + received_value) % PRIME])
    ELSE InitializeProcessRequest(process_id, own_peer_id, peers, from_peer_id,
                                  received_value, input, coeffs)

\* ReceiveSharesSumRequest::new
ReceiveSharesSumRequest(process_id, own_peer_id, peers, from_peer_id, received_value, existing_process, input, coeffs) ==
    IF existing_process.some
    THEN LET process == existing_process.val
             all_shares_sums ==
                 <<[point |-> own_peer_id, value |-> process.state.shares_sum]>>
                 \o SharesOf(process.received_shares_sums)
                 \o <<[point |-> from_peer_id, value |-> received_value]>>
             final_sum == recover_secret(all_shares_sums, PRIME)
         IN IF from_peer_id \in DOMAIN process.received_shares_sums
            THEN Err("SumSharesAlreadyReceived")
            ELSE IF process.state.tag = "Completed"
            THEN Err("AllSharesSumsReceived")
            ELSE IF process.state.tag = "AwaitingPeerShares"
            THEN Ok([variant |-> "ReceiveSharesSum",
                     process_id |-> process_id,
                     from_peer_id |-> from_peer_id,
                     received_value |-> received_value])
            ELSE IF Cardinality(DOMAIN process.received_shares_sums) < Len(peers) - 1
            THEN Ok([variant |-> "ReceiveSharesSum",
                     process_id |-> process_id,
                     from_peer_id |-> from_peer_id,
                     received_value |-> received_value])
            ELSE IF ~final_sum.ok THEN Err("Unknown")
            ELSE Ok([variant |-> "ReceiveLastSharesSum",
                     process_id |-> process_id,
                     from_peer_id |-> from_peer_id,
                     received_value |-> received_value,
                     final_sum |-> final_sum.val])
    ELSE InitializeProcessRequest(process_id, own_peer_id, peers, from_peer_id,
                                  received_value, input, coeffs)

(***************************************************************************)
(* InMemoryAdditionRepository (src/routes/addition/repository.rs).         *)
(***************************************************************************)
\* the process create_process and the receive_new_process_* operations build
RoutesNewProcess(request, received_shares, received_shares_sums) ==
    [id |-> request.process_id,
     input |-> request.input,
     own_share |-> request.own_share,
     shares_to_send |-> request.shares_to_send,
     received_shares |-> received_shares,
     received_shares_sums |-> received_shares_sums,
     state |-> AwaitingPeerShares]

\* HashMap::insert(process_id, process)
RoutesInsert(procs, process) == MapInsertAll(procs, [i \in {process.id} |-> process])

\* create_process
routes_create_process(procs, request) ==
    LET process == RoutesNewProcess(request, EmptyMap, EmptyMap)
    IN Reply(Ok(process), RoutesInsert(procs, process))

\* get_process
routes_get_process(procs, process_id) ==
    IF process_id \in DOMAIN procs
    THEN Ok(procs[process_id]) ELSE Err("process not found")

\* receive_new_process_share
receive_new_process_share(procs, request) ==
    LET process == RoutesNewProcess(
                       request,
                       [k \in {request.from_peer_id} |-> request.received_value],
                       EmptyMap)
    IN Reply(Ok(process), RoutesInsert(procs, process))

\* receive_share
receive_share(procs, request) ==
    IF request.process_id \notin DOMAIN procs
    THEN Reply(Err("process not found"), procs)
    ELSE LET process == procs[request.process_id]
             updated == [process EXCEPT !.received_shares =
                            MapInsertAll(@, [k \in {request.from_peer_id} |->
                                                request.received_value])]
         IN IF request.from_peer_id \in DOMAIN process.received_shares
            THEN Reply(Err("share already received"), procs)
            ELSE Reply(Ok(updated), [procs EXCEPT ![request.process_id] = updated])

\* receive_last_share
receive_last_share(procs, request) ==
    IF request.process_id \notin DOMAIN procs
    THEN Reply(Err("process not found"), procs)
    ELSE LET process == procs[request.process_id]
             updated == [process EXCEPT
                            !.received_shares =
                                MapInsertAll(@, [k \in {request.from_peer_id} |->
                                                    request.received_value]),
                            !.state = AwaitingPeerSharesSum(
                                          request.computed_shares_sum)]
         IN IF request.from_peer_id \in DOMAIN process.received_shares
            THEN Reply(Err("share already received"), procs)
            ELSE IF process.state.tag # "AwaitingPeerShares"
            THEN Reply(Err("process not in a state to receive last share"), procs)
            ELSE Reply(Ok(updated), [procs EXCEPT ![request.process_id] = updated])

\* receive_new_process_shares_sum
receive_new_process_shares_sum(procs, request) ==
    LET process == RoutesNewProcess(
                       request,
                       EmptyMap,
                       [k \in {request.from_peer_id} |-> request.received_value])
    IN Reply(Ok(process), RoutesInsert(procs, process))

\* receive_shares_sum
receive_shares_sum(procs, request) ==
    IF request.process_id \notin DOMAIN procs
    THEN Reply(Err("process not found"), procs)
    ELSE LET process == procs[request.process_id]
             updated == [process EXCEPT !.received_shares_sums =
                            MapInsertAll(@, [k \in {request.from_peer_id} |->
                                                request.received_value])]
         IN IF request.from_peer_id \in DOMAIN process.received_shares_sums
            THEN Reply(Err("sum share already received"), procs)
            ELSE Reply(Ok(updated), [procs EXCEPT ![request.process_id] = updated])

\* receive_last_shares_sum
receive_last_shares_sum(procs, request) ==
    IF request.process_id \notin DOMAIN procs
    THEN Reply(Err("process not found"), procs)
    ELSE LET process == procs[request.process_id]
             updated == [process EXCEPT
                            !.received_shares_sums =
                                MapInsertAll(@, [k \in {request.from_peer_id} |->
                                                    request.received_value]),
                            !.state = RoutesCompleted(request.final_sum)]
         IN IF request.from_peer_id \in DOMAIN process.received_shares_sums
            THEN Reply(Err("sum share already received"), procs)
            ELSE IF process.state.tag # "AwaitingPeerSharesSum"
            THEN Reply(Err("process not in a state to receive last sum share"), procs)
            ELSE Reply(Ok(updated), [procs EXCEPT ![request.process_id] = updated])

\* delete_process
routes_delete_process(procs, process_id) ==
    Reply(Ok(<<>>), MapRemove(procs, process_id))

RoutesInit ==
    /\ rt_processes = EmptyMap
    /\ rt_uuids = {}
    /\ rt_inbound = {}
    /\ rt_outcome = Outcome("none", Ok(<<>>))

\* POST /additions: the handler draws a new process id
RoutesCreateProcess(process_id, input, coeffs) ==
    LET request == RoutesCreateProcessRequest(process_id, server_peer_id,
                                              peer_ids, input, coeffs)
        reply == routes_create_process(rt_processes, request.val)
    IN /\ process_id \notin rt_uuids
       /\ request.ok
       /\ rt_uuids' = rt_uuids \cup {process_id}
       /\ rt_processes' = reply.processes
       /\ rt_outcome' = Outcome("create", reply.result)
       /\ UNCHANGED <<rt_inbound, notRoutes>>

\* DELETE /additions/{id}
RoutesDeleteProcess(process_id) ==
    LET reply == routes_delete_process(rt_processes, process_id)
    IN /\ rt_processes' = reply.processes
       /\ rt_outcome' = Outcome("delete", reply.result)
       /\ UNCHANGED <<rt_uuids, rt_inbound, notRoutes>>

\* a reception handler, first half: get_process, then the request
RoutesReceive(kind, process_id, from, value, input, coeffs) ==
    LET found == routes_get_process(rt_processes, process_id)
        existing_process == IF found.ok THEN Some(found.val) ELSE None
        request == IF kind = "share"
                   THEN ReceiveShareRequest(process_id, server_peer_id, peer_ids,
                                            from, value, existing_process,
                                            input, coeffs)
                   ELSE ReceiveSharesSumRequest(process_id, server_peer_id,
                                                peer_ids, from, value,
                                                existing_process, input, coeffs)
    IN /\ Cardinality(rt_inbound) < MaxHandlers
       /\ rt_uuids' = rt_uuids \cup {process_id}
       /\ IF request.ok
          THEN /\ rt_inbound' = rt_inbound \cup {[kind |-> kind,
                                                  request |-> request.val]}
               /\ UNCHANGED rt_outcome
          ELSE /\ rt_outcome' = Outcome("receive_" \o kind, request)
               /\ UNCHANGED rt_inbound
       /\ UNCHANGED <<rt_processes, notRoutes>>

\* the repository operation a request variant goes to
RoutesDispatch(procs, m) ==
    IF m.request.variant = "InitializeProcess"
    THEN IF m.kind = "share"
         THEN receive_new_process_share(procs, m.request)
         ELSE receive_new_process_shares_sum(procs, m.request)
    ELSE IF m.request.variant = "ReceiveShare" THEN receive_share(procs, m.request)
    ELSE IF m.request.variant = "ReceiveLastShare"
    THEN receive_last_share(procs, m.request)
    ELSE IF m.request.variant = "ReceiveSharesSum"
    THEN receive_shares_sum(procs, m.request)
    ELSE receive_last_shares_sum(procs, m.request)

\* a reception handler, second half: the repository operation of the request
RoutesApply(m) ==
    LET reply == RoutesDispatch(rt_processes, m)
    IN /\ rt_processes' = reply.processes
       /\ rt_inbound' = rt_inbound \ {m}
       /\ rt_outcome' = Outcome("receive_" \o m.kind, reply.result)
       /\ UNCHANGED <<rt_uuids, notRoutes>>

RoutesNext ==
    \/ \E id \in ProcessIds, input \in Inputs, coeffs \in Coeffs :
           RoutesCreateProcess(id, input, coeffs)
    \/ \E id \in ProcessIds : RoutesDeleteProcess(id)
    \/ \E kind \in {"share", "shares_sum"}, id \in ProcessIds, from \in PeerIds,
          value \in ShareValues, input \in Inputs, coeffs \in Coeffs :
           RoutesReceive(kind, id, from, value, input, coeffs)
    \/ \E m \in rt_inbound : RoutesApply(m)

(***************************************************************************)
(* Part 5: share applications to one process, one after the other: each is *)
(* ReceiveSharesRequest::new on the process as it is, then receive_shares. *)
(***************************************************************************)
\* the process create_process stores for a request
NewProcess(process_id, input, coeffs) ==
    create_process(EmptyMap,
                   CreateProcessRequest(process_id, server_peer_id, peer_ids,
                                        input, coeffs).val).result.val

\* one application of additions to process; a refused one leaves it as it is
ApplyShares(process, additions) ==
    LET request == ReceiveSharesRequest(process, additions, peers_count)
        reply == receive_shares([i \in {process.id} |-> process], request.val)
    IN IF request.ok /\ reply.result.ok THEN reply.result.val ELSE process

\* the shares of the peers in from
SharesFrom(from) == [k \in from |-> ap_values[k]]

ApplyIdle ==
    /\ ap_initial = None
    /\ ap_values = EmptyMap
    /\ ap_union = {}
    /\ ap_process = None

ApplyInit ==
    \E id \in ProcessIds, input \in Inputs, coeffs \in Coeffs :
        /\ ap_initial = NewProcess(id, input, coeffs)
        /\ ap_values \in [PeerIds -> 0..(PRIME - 1)]
        /\ ap_union = {}
        /\ ap_process = ap_initial

ApplySharesFrom(from) ==
    /\ ap_process' = ApplyShares(ap_process, SharesFrom(from))
    /\ ap_union' = ap_union \cup from
    /\ UNCHANGED <<ap_initial, ap_values, notApply>>

ApplyNext == \E from \in SUBSET PeerIds : ApplySharesFrom(from)

(***************************************************************************)
(* Part 6: an ensemble of nodes of the domains variant, all for the same   *)
(* process id.  A node's peers are the other nodes.                        *)
(***************************************************************************)
NetSize == 2

NetMaxCoeff == 1

NetNodes == 1..NetSize

NetProcessId == "p1"

NetPeers(n) == NetNodes \ {n}

RECURSIVE Ascending(_)
\* the ids of a set as the Vec the configuration gives
Ascending(ids) ==
    IF ids = {} THEN <<>>
    ELSE LET least == CHOOSE x \in ids : \A y \in ids : x <= y
         IN <<least>> \o Ascending(ids \ {least})

NetCoeffs == [1..(NetSize - 1) -> 0..NetMaxCoeff]

NetCreated(n) == NetProcessId \in DOMAIN net_processes[n]

NetProcess(n) == net_processes[n][NetProcessId]

NetMessage(from, to, kind, value) ==
    [from |-> from, to |-> to, kind |-> kind, value |-> value]

NetIdle ==
    /\ net_processes = EmptyMap
    /\ net_failures = EmptyMap
    /\ net_msgs = {}

NetInit ==
    /\ net_processes = [n \in NetNodes |-> EmptyMap]
    /\ net_failures = [n \in NetNodes |-> EmptyMap]
    /\ net_msgs = {}

\* POST /additions at node n: create the process and enqueue a share for
\* each peer
NetCreate(n, input, coeffs) ==
    LET request == CreateProcessRequest(NetProcessId, n, Ascending(NetPeers(n)),
                                        input, coeffs)
        reply == create_process(net_processes[n], request.val)
    IN /\ ~NetCreated(n)
       /\ request.ok
       /\ net_processes' = [net_processes EXCEPT ![n] = reply.processes]
       /\ net_msgs' = net_msgs \cup
              {NetMessage(n, to, "share", request.val.shares_to_send[to]) :
                   to \in NetPeers(n)}
       /\ UNCHANGED <<net_failures, notNet>>

\* POST /additions/{id}/receive at the node of procs, whose peers are
\* peers_of_to, for message m: the request from the process read, then the
\* repository
NetReceive(procs, peers_of_to, m) ==
    Bind(get_process(procs, NetProcessId), LAMBDA found :
        IF ~found.ok THEN Reply(found, procs)
        ELSE Bind(IF m.kind = "share"
                  THEN ReceiveSharesRequest(found.val, [k \in {m.from} |-> m.value],
                                            Cardinality(peers_of_to))
                  ELSE ReceiveSharesSumsRequest(found.val,
                                                [k \in {m.from} |-> m.value],
                                                m.to, Cardinality(peers_of_to)),
                  LAMBDA request :
                      IF ~request.ok THEN Reply(request, procs)
                      ELSE IF m.kind = "share"
                      THEN receive_shares(procs, request.val)
                      ELSE receive_shares_sums(procs, request.val)))

\* the shares sum messages the handler enqueues when the share of m has
\* completed the shares
NetSumsToSend(reply, m) ==
    IF reply.result.ok /\ m.kind = "share"
       /\ reply.result.val.state.tag = "AwaitingPeerSharesSum"
    THEN {NetMessage(m.to, to, "shares_sum", reply.result.val.state.shares_sum) :
              to \in NetPeers(m.to)}
    ELSE {}

\* the dispatcher posts m and dequeues it whatever the peer answers
NetDeliver(m) ==
    /\ m \in net_msgs
    /\ \E reply \in {NetReceive(net_processes[m.to], NetPeers(m.to), m)} :
           /\ net_processes' = [net_processes EXCEPT ![m.to] = reply.processes]
           /\ net_msgs' = (net_msgs \ {m}) \cup NetSumsToSend(reply, m)
    /\ UNCHANGED <<net_failures, notNet>>

\* the peer stays out of reach until the dispatcher abandons m
NetLose(m) ==
    /\ m \in net_msgs
    /\ net_msgs' = net_msgs \ {m}
    /\ UNCHANGED <<net_processes, net_failures, notNet>>

\* the peers node n misses a share or a shares sum of and that hold the
\* process: those whose progress answers the orchestrator of n can get
NetReachable(n) ==
    {j \in NetPeers(n) :
        /\ NetCreated(j)
        /\ j \notin DOMAIN (IF NetProcess(n).state.tag = "AwaitingPeerShares"
                            THEN NetProcess(n).received_shares
                            ELSE NetProcess(n).received_shares_sums)}

\* what the progress answers of the peers in answering give node n
NetFetched(n, process, answering) ==
    IF answering = {} THEN Err("Failed to fetch progress from any peer")
    ELSE IF process.state.tag = "AwaitingPeerShares"
    THEN Ok([j \in answering |-> AdditionProcessProgress(NetProcess(j), n).share])
    ELSE Ok([j \in {k \in answering :
                       AdditionProcessProgress(NetProcess(k), n).shares_sum.some} |->
                AdditionProcessProgress(NetProcess(j), n).shares_sum.val])

\* one round of the orchestrator of node n in which the peers of answering
\* answer
NetPoll(n, answering) ==
    /\ NetCreated(n)
    /\ NetProcess(n) \in get_ongoing_processes(net_processes[n])
    /\ (IF NetProcessId \in DOMAIN net_failures[n]
        THEN net_failures[n][NetProcessId] ELSE 0) < MaxFailures
    /\ answering \subseteq NetReachable(n)
    /\ \E fetched \in {NetFetched(n, NetProcess(n), answering)} :
       \E request \in {PollRequest(n, NetPeers(n), NetProcess(n), fetched)} :
       \E reply \in {IF ~request.ok THEN Reply(request, net_processes[n])
                     ELSE IF NetProcess(n).state.tag = "AwaitingPeerShares"
                     THEN receive_shares(net_processes[n], request.val)
                     ELSE receive_shares_sums(net_processes[n], request.val)} :
           IF reply.result.ok
           THEN /\ net_processes' = [net_processes EXCEPT ![n] = reply.processes]
                /\ UNCHANGED net_failures
           ELSE /\ net_failures' = [net_failures EXCEPT ![n] =
                                       RecordFailure(@, NetProcessId)]
                /\ UNCHANGED net_processes
    /\ UNCHANGED <<net_msgs, notNet>>

\* a round in which every peer that holds the process answers
NetPollAll(n) == NetPoll(n, NetReachable(n))

NetNext ==
    \/ \E n \in NetNodes, input \in Inputs, coeffs \in NetCoeffs :
           NetCreate(n, input, coeffs)
    \/ \E m \in net_msgs : NetDeliver(m)
    \/ \E m \in net_msgs : NetLose(m)
    \/ \E n \in NetNodes : \E answering \in SUBSET NetPeers(n) : NetPoll(n, answering)

(***************************************************************************)
(* Part 7: the outbox of peer messages (src/peer_communication).  The      *)
(* clock counts seconds; the envelope of an item, which no operation of    *)
(* the outbox reads or changes, is left out of the item.                   *)
(***************************************************************************)
\* tokio::sync::mpsc::channel::<()>(100)
WakeUpCapacity == 100

\* OutboxPeerMessagesRelayer::new(repository, rx, 10, ..)
batch_size == 10

\* if attempts >= 5
MaxAttempts == 5

\* std::time::Duration::from_secs(1)
RetryDelay == 1

\* the items enqueued in a behaviour
MaxItems == 2

\* the seconds the clock runs for
MaxTime == 5

\* the signals queued when the heartbeat of SpecOutbox stops adding to them
MaxQueued == 1

\* the delays and the attempts of the direct calls of SpecRepository, and the
\* seconds its clock runs for
MaxDelay == 2

MaxCallAttempts == 2

MaxCallTime == 1

OutboxIds == 1..MaxItems

\* struct OutboxItem
OutboxItem(id, created_at, scheduled_at, attempts) ==
    [id |-> id, created_at |-> created_at, scheduled_at |-> scheduled_at,
     attempts |-> attempts]

\* the elements of a Vec
Range(v) == {v[k] : k \in 1..Len(v)}

\* HashMap::values(): the items in one of the orders the map may iterate in
Orders(items) ==
    {order \in [1..Cardinality(DOMAIN items) -> DOMAIN items] :
        \A i, j \in DOMAIN order : i # j => order[i] # order[j]}

RECURSIVE enqueue_envelopes(_, _, _)
\* enqueue_envelopes up to the release of the lock: ids are the Uuid::new_v4()
\* of the items, reads the values of the two chrono::Utc::now() of each item
enqueue_envelopes(items, ids, reads) ==
    IF ids = <<>> THEN items
    ELSE enqueue_envelopes(
             MapInsertAll(items, [k \in {Head(ids)} |->
                                     OutboxItem(Head(ids), reads[1], reads[2], 0)]),
             Tail(ids), SubSeq(reads, 3, Len(reads)))

RECURSIVE re_enqueue_envelopes(_, _, _, _)
\* re_enqueue_envelopes: get_mut(id).ok_or_else(..)? leaves the loop at the
\* first id that is not in the map
re_enqueue_envelopes(items, ids, delay, now) ==
    IF ids = <<>> THEN [result |-> Ok(<<>>), items |-> items]
    ELSE IF Head(ids) \notin DOMAIN items
    THEN [result |-> Err("not found"), items |-> items]
    ELSE re_enqueue_envelopes(
             [items EXCEPT ![Head(ids)].attempts = @ + 1,
                           ![Head(ids)].scheduled_at = now + delay],
             Tail(ids), delay, now)

\* dequeue_envelopes: the ids that are in the map are removed and their items
\* returned
dequeue_envelopes(items, ids) ==
    [result |-> Ok(LET found == SelectSeq(ids, LAMBDA id : id \in DOMAIN items)
                   IN [k \in 1..Len(found) |-> items[found[k]]]),
     items |-> [k \in (DOMAIN items) \ Range(ids) |-> items[k]]]

RECURSIVE sort_by_key(_)
\* Vec::sort_by_key(|item| item.scheduled_at), a stable sort
sort_by_key(v) ==
    IF v = <<>> THEN <<>>
    ELSE LET last == v[Len(v)]
             rest == sort_by_key(SubSeq(v, 1, Len(v) - 1))
         IN SelectSeq(rest, LAMBDA x : x.scheduled_at <= last.scheduled_at)
            \o <<last>>
            \o SelectSeq(rest, LAMBDA x : x.scheduled_at > last.scheduled_at)

\* a get_items_ready_to_send that does not look at the clock
get_items_ready_to_send_whenever(items, now, limit, order) ==
    LET sorted == sort_by_key([k \in 1..Len(order) |-> items[order[k]]])
    IN SubSeq(sorted, 1, IF limit < Len(sorted) THEN limit ELSE Len(sorted))

\* get_items_ready_to_send; order is the order in which the map iterates
get_items_ready_to_send(items, now, limit, order) ==
    LET ready_items == SelectSeq([k \in 1..Len(order) |-> items[order[k]]],
                                 LAMBDA item : item.scheduled_at <= now)
        sorted == sort_by_key(ready_items)
    IN SubSeq(sorted, 1, IF limit < Len(sorted) THEN limit ELSE Len(sorted))

\* what the peer, or the network, answers to a dispatch
Answers == {"2xx", "non-2xx", "transport error"}

\* OutboxPeerMessagesRelayer::dispatch: only a failed send is an error, a
\* response that is not a success is logged
dispatch(answer) ==
    IF answer = "transport error" THEN Err("sending outbox item to peer")
    ELSE Ok(answer)

\* a classification that abandons an item only above the cap
classify_above_cap(attempts, result) ==
    IF result.ok THEN "success"
    ELSE IF attempts > MaxAttempts THEN "abandoned" ELSE "retried"

\* poll_and_dispatch, the match on a result: attempts is item_extracts[index].1
classify(attempts, result) ==
    IF result.ok THEN "success"
    ELSE IF attempts >= MaxAttempts THEN "abandoned" ELSE "retried"

\* the ids item_extracts[index].0 pushed to the Vec of a class
Classified(batch, results, class) ==
    LET chosen == SelectSeq([index \in 1..Len(results) |->
                                [id |-> batch[index].id,
                                 class |-> classify(batch[index].attempts,
                                                    results[index])]],
                            LAMBDA e : e.class = class)
    IN [k \in 1..Len(chosen) |-> chosen[k].id]

\* poll_and_dispatch once the results are collected: results[index] is the
\* result of the dispatch that completed in position index
poll_and_dispatch(items, batch, results, now) ==
    LET success_ids == Classified(batch, results, "success")
        to_be_retried_ids == Classified(batch, results, "retried")
        to_be_abandoned == Classified(batch, results, "abandoned")
        sent == IF success_ids # <<>>
                THEN dequeue_envelopes(items, success_ids).items ELSE items
        retried == IF to_be_retried_ids # <<>>
                   THEN re_enqueue_envelopes(sent, to_be_retried_ids,
                                             RetryDelay, now)
                   ELSE [result |-> Ok(<<>>), items |-> sent]
    IN IF ~retried.result.ok THEN retried
       ELSE IF to_be_abandoned # <<>>
       THEN [result |-> Ok(<<>>),
             items |-> dequeue_envelopes(retried.items, to_be_abandoned).items]
       ELSE [result |-> Ok(<<>>), items |-> retried.items]

\* the results in the order buffer_unordered yields them: the dispatch that
\* completes in position index is the one of batch[completion[index]]
Results(batch, answers, completion) ==
    [index \in 1..Len(batch) |-> dispatch(answers[completion[index]])]

Receiving == [pc |-> "receiving", batch |-> <<>>]

\* what a call of the repository returned: the items of an Ok, the error of
\* an Err
RepositoryReply(op, result) ==
    [op |-> op, ok |-> result.ok,
     items |-> IF result.ok THEN result.val ELSE <<>>,
     err |-> IF result.ok THEN "" ELSE result.val]

OutboxIdle ==
    /\ ob_items = EmptyMap
    /\ ob_now = 0
    /\ ob_queue = 0
    /\ ob_calls = {}
    /\ ob_beat = "waiting"
    /\ ob_relayer = Receiving
    /\ ob_dispatches = EmptyMap
    /\ ob_reply = RepositoryReply("none", Ok(<<>>))

\* the ids Uuid::new_v4() has not drawn yet
FreshIds == OutboxIds \ DOMAIN ob_dispatches

\* the clock values the 2 * count reads of now() of a call see when the
\* second changes before read number ticked_before
NowReads(count, ticked_before) ==
    [j \in 1..(2 * count) |-> IF j >= ticked_before THEN ob_now + 1 ELSE ob_now]

\* enqueue_envelopes of count envelopes, up to the release of the lock
EnqueueInsert(count, ticked_before) ==
    LET ids == SubSeq(Ascending(FreshIds), 1, count)
        reads == NowReads(count, ticked_before)
    IN /\ count <= Cardinality(FreshIds)
       /\ reads[2 * count] <= MaxTime
       /\ ob_items' = enqueue_envelopes(ob_items, ids, reads)
       /\ ob_now' = reads[2 * count]
       /\ ob_calls' = ob_calls \cup {Range(ids)}
       /\ ob_dispatches' = MapInsertAll(ob_dispatches, [k \in Range(ids) |-> 0])
       /\ UNCHANGED <<ob_queue, ob_beat, ob_relayer, ob_reply, notOutbox>>

\* enqueue_envelopes, channel_sender.send(()).await: completes when the
\* channel has room, waits until then
EnqueuePing(call) ==
    /\ call \in ob_calls
    /\ ob_queue < WakeUpCapacity
    /\ ob_queue' = ob_queue + 1
    /\ ob_calls' = ob_calls \ {call}
    /\ UNCHANGED <<ob_items, ob_now, ob_beat, ob_relayer, ob_dispatches,
                   ob_reply, notOutbox>>

\* a heartbeat whose interval fires in the first second only
IntervalTickOnce ==
    /\ ob_beat = "waiting"
    /\ ob_now = 0
    /\ ob_beat' = "sending"
    /\ UNCHANGED <<ob_items, ob_now, ob_queue, ob_calls, ob_relayer,
                   ob_dispatches, ob_reply, notOutbox>>

\* IntervalPing::run, interval.tick().await
IntervalTick ==
    /\ ob_beat = "waiting"
    /\ ob_beat' = "sending"
    /\ UNCHANGED <<ob_items, ob_now, ob_queue, ob_calls, ob_relayer,
                   ob_dispatches, ob_reply, notOutbox>>

\* the same while few signals are queued
IntervalTickQuiet == ob_queue <= MaxQueued /\ IntervalTick

\* a heartbeat whose channel takes a signal whatever it holds
IntervalPingUnbounded ==
    /\ ob_beat = "sending"
    /\ ob_queue' = ob_queue + 1
    /\ ob_beat' = "waiting"
    /\ UNCHANGED <<ob_items, ob_now, ob_calls, ob_relayer, ob_dispatches,
                   ob_reply, notOutbox>>

\* IntervalPing::run, channel_sender.send(()).await
IntervalPing ==
    /\ ob_beat = "sending"
    /\ ob_queue < WakeUpCapacity
    /\ ob_queue' = ob_queue + 1
    /\ ob_beat' = "waiting"
    /\ UNCHANGED <<ob_items, ob_now, ob_calls, ob_relayer, ob_dispatches,
                   ob_reply, notOutbox>>

\* OutboxPeerMessagesRelayer::run receives a signal; poll_and_dispatch reads
\* the items ready to send and starts their dispatches
RelayerReceive(order) ==
    /\ ob_relayer.pc = "receiving"
    /\ ob_queue > 0
    /\ ob_queue' = ob_queue - 1
    /\ \E batch \in {get_items_ready_to_send(ob_items, ob_now, batch_size, order)} :
          /\ ob_relayer' = IF batch = <<>> THEN Receiving
                           ELSE [pc |-> "dispatching", batch |-> batch]
          /\ ob_dispatches' =
                 [id \in DOMAIN ob_dispatches |->
                     IF \E k \in 1..Len(batch) : batch[k].id = id
                     THEN ob_dispatches[id] + 1 ELSE ob_dispatches[id]]
    /\ UNCHANGED <<ob_items, ob_now, ob_calls, ob_beat, ob_reply, notOutbox>>

\* the orders in which the dispatches of a batch may complete
Completions(batch) ==
    {completion \in [1..Len(batch) -> 1..Len(batch)] :
        \A i, j \in 1..Len(batch) : i # j => completion[i] # completion[j]}

\* poll_and_dispatch from the collection of the results to its return:
\* answers[k] is what the dispatch of batch[k] meets
RelayerSettle(answers, completion) ==
    /\ ob_relayer.pc = "dispatching"
    /\ answers \in [1..Len(ob_relayer.batch) -> Answers]
    /\ completion \in Completions(ob_relayer.batch)
    /\ ob_items' = poll_and_dispatch(ob_items, ob_relayer.batch,
                                     Results(ob_relayer.batch, answers, completion),
                                     ob_now).items
    /\ ob_relayer' = Receiving
    /\ UNCHANGED <<ob_now, ob_queue, ob_calls, ob_beat, ob_dispatches, ob_reply,
                   notOutbox>>

\* a second goes by
Tick ==
    /\ ob_now < MaxTime
    /\ ob_now' = ob_now + 1
    /\ UNCHANGED <<ob_items, ob_queue, ob_calls, ob_beat, ob_relayer,
                   ob_dispatches, ob_reply, notOutbox>>

\* the same in the first seconds
TickEarly == ob_now < MaxCallTime /\ Tick

\* the outbox with its relayer, its heartbeat and the clock
OutboxNext ==
    \/ \E count \in 1..MaxItems :
           \E ticked_before \in 1..(2 * count + 1) :
               EnqueueInsert(count, ticked_before)
    \/ \E call \in ob_calls : EnqueuePing(call)
    \/ IntervalTickQuiet
    \/ IntervalPing
    \/ \E order \in Orders(ob_items) : RelayerReceive(order)
    \/ \E answers \in [1..Len(ob_relayer.batch) -> Answers],
          completion \in Completions(ob_relayer.batch) :
           RelayerSettle(answers, completion)
    \/ Tick

\* the wake-up channel: the producers and the relayer with the clock at rest
WakeUpNext ==
    \/ \E count \in 1..MaxItems :
           \E ticked_before \in 1..(2 * count + 1) :
               EnqueueInsert(count, ticked_before)
    \/ \E call \in ob_calls : EnqueuePing(call)
    \/ IntervalTick
    \/ IntervalPing
    \/ \E order \in Orders(ob_items) : RelayerReceive(order)
    \/ \E answers \in [1..Len(ob_relayer.batch) -> Answers],
          completion \in Completions(ob_relayer.batch) :
           RelayerSettle(answers, completion)

\* the batch size of a relayer built to take fewer items than the outbox holds
LiveBatch == 1

\* OutboxPeerMessagesRelayer::run receives a signal, in a relayer built with
\* batch_size = limit
RelayerReceiveBatch(limit, order) ==
    /\ ob_relayer.pc = "receiving"
    /\ ob_queue > 0
    /\ ob_queue' = ob_queue - 1
    /\ \E batch \in {get_items_ready_to_send(ob_items, ob_now, limit, order)} :
          /\ ob_relayer' = IF batch = <<>> THEN Receiving
                           ELSE [pc |-> "dispatching", batch |-> batch]
          /\ ob_dispatches' =
                 [id \in DOMAIN ob_dispatches |->
                     IF \E k \in 1..Len(batch) : batch[k].id = id
                     THEN ob_dispatches[id] + 1 ELSE ob_dispatches[id]]
    /\ UNCHANGED <<ob_items, ob_now, ob_calls, ob_beat, ob_reply, notOutbox>>

\* a second goes by while an item waits for its scheduled_at; the seconds
\* in which every item is ready change nothing the relayer reads
TickDue ==
    /\ \E id \in DOMAIN ob_items : ob_items[id].scheduled_at > ob_now
    /\ ob_now' = ob_now + 1
    /\ UNCHANGED <<ob_items, ob_queue, ob_calls, ob_beat, ob_relayer,
                   ob_dispatches, ob_reply, notOutbox>>

\* enqueue_envelopes in the first seconds
EnqueueInsertEarly(count, ticked_before) ==
    ob_now < MaxCallTime /\ EnqueueInsert(count, ticked_before)

\* the outbox with a relayer of batch size LiveBatch
RelayNext ==
    \/ \E count \in 1..MaxItems :
           \E ticked_before \in 1..(2 * count + 1) :
               EnqueueInsertEarly(count, ticked_before)
    \/ \E call \in ob_calls : EnqueuePing(call)
    \/ IntervalTickQuiet
    \/ IntervalPing
    \/ \E order \in Orders(ob_items) : RelayerReceiveBatch(LiveBatch, order)
    \/ \E answers \in [1..Len(ob_relayer.batch) -> Answers],
          completion \in Completions(ob_relayer.batch) :
           RelayerSettle(answers, completion)
    \/ TickDue

\* the heartbeat keeps ticking and sending, the relayer task is scheduled,
\* every dispatch gets an answer or an error, and the clock goes on
RelayFairness ==
    /\ WF_vars(IntervalTickQuiet)
    /\ WF_vars(IntervalPing)
    /\ WF_vars(\E order \in Orders(ob_items) :
                   RelayerReceiveBatch(LiveBatch, order))
    /\ WF_vars(\E answers \in [1..Len(ob_relayer.batch) -> Answers],
                  completion \in Completions(ob_relayer.batch) :
                   RelayerSettle(answers, completion))
    /\ WF_vars(TickDue)

\* the arguments of the direct calls of the repository: lists of ids, with
\* ids that are not in the outbox and ids listed twice, limits and delays
IdLists == UNION {[1..n -> OutboxIds] : n \in 0..MaxItems}

Limits == 0..(MaxItems + 1)

Delays == 0..MaxDelay

\* a call of get_items_ready_to_send
RepoGetItemsReadyToSend(limit, order) ==
    /\ ob_reply' = RepositoryReply("get_items_ready_to_send",
                                   Ok(get_items_ready_to_send(ob_items, ob_now,
                                                              limit, order)))
    /\ UNCHANGED <<ob_items, ob_now, ob_queue, ob_calls, ob_beat, ob_relayer,
                   ob_dispatches, notOutbox>>

\* a call of re_enqueue_envelopes
RepoReEnqueue(ids, delay) ==
    /\ \A id \in Range(ids) \cap DOMAIN ob_items :
           ob_items[id].attempts < MaxCallAttempts
    /\ \E reply \in {re_enqueue_envelopes(ob_items, ids, delay, ob_now)} :
           /\ ob_items' = reply.items
           /\ ob_reply' = RepositoryReply("re_enqueue_envelopes", reply.result)
    /\ UNCHANGED <<ob_now, ob_queue, ob_calls, ob_beat, ob_relayer,
                   ob_dispatches, notOutbox>>

\* a call of dequeue_envelopes
RepoDequeue(ids) ==
    /\ \E reply \in {dequeue_envelopes(ob_items, ids)} :
           /\ ob_items' = reply.items
           /\ ob_reply' = RepositoryReply("dequeue_envelopes", reply.result)
    /\ UNCHANGED <<ob_now, ob_queue, ob_calls, ob_beat, ob_relayer,
                   ob_dispatches, notOutbox>>

\* the repository of the outbox under direct calls
RepositoryNext ==
    \/ \E count \in 1..MaxItems :
           \E ticked_before \in 1..(2 * count + 1) :
               EnqueueInsert(count, ticked_before)
    \/ \E call \in ob_calls : EnqueuePing(call)
    \/ \E limit \in Limits, order \in Orders(ob_items) :
           RepoGetItemsReadyToSend(limit, order)
    \/ \E ids \in IdLists, delay \in Delays : RepoReEnqueue(ids, delay)
    \/ \E ids \in IdLists : RepoDequeue(ids)
    \/ TickEarly

\* ---------------------------------------------------------------------------
\* Part 8: the senders of peer messages
\* ---------------------------------------------------------------------------

\* longest batch handed to send_messages
MaxBatch == 2

\* most envelopes waiting in the outbox, or in the channel, at once
MaxPending == 3

\* the url configured for each peer
peer_urls == [id \in PeerIds |-> 3000 + id]

PeerMessage(peer_id) == [peer_id |-> peer_id]

PeerEnvelope(peer_id, peer_url) == [peer_id |-> peer_id, peer_url |-> peer_url]

SenderError(kind, peer_id) == Err([kind |-> kind, peer_id |-> peer_id])

\* the batches a caller can hand over
Batches ==
    UNION {[1..len -> {PeerMessage(id) : id \in HeaderIds}] : len \in 0..MaxBatch}

\* the envelope of one message, or the error that refuses it
to_envelope(own_peer_id, urls, message) ==
    IF message.peer_id = own_peer_id
    THEN SenderError("OwnPeerId", message.peer_id)
    ELSE IF message.peer_id \notin DOMAIN urls
    THEN SenderError("PeerNotFound", message.peer_id)
    ELSE Ok(PeerEnvelope(message.peer_id, urls[message.peer_id]))

\* collect::<Result<Vec<_>, _>>(): the values, or the first error in order
RECURSIVE collect(_)
collect(results) ==
    IF results = <<>> THEN Ok(<<>>)
    ELSE IF ~Head(results).ok THEN Head(results)
    ELSE AndThen(collect(Tail(results)),
                 LAMBDA rest : Ok(<<Head(results).val>> \o rest))

\* OutboxPeerMessagesSender::send_messages up to the call of the repository
outbox_send_messages(own_peer_id, urls, messages) ==
    collect([k \in 1..Len(messages) |->
                to_envelope(own_peer_id, urls, messages[k])])

\* buffer_unordered(2): the k-th future to complete is one of the first k + 1
CompletionOrders(n) ==
    {p \in [1..n -> 1..n] :
        /\ \A i, j \in 1..n : p[i] = p[j] => i = j
        /\ \A k \in 1..n : p[k] <= k + 1}

\* for result in results { result?; }
RECURSIVE first_error(_)
first_error(results) ==
    IF results = <<>> THEN Ok(<<>>)
    ELSE IF ~Head(results).ok THEN Head(results)
    ELSE first_error(Tail(results))

RECURSIVE SentEnvelopes(_)
SentEnvelopes(results) ==
    IF results = <<>> THEN <<>>
    ELSE (IF Head(results).ok THEN <<Head(results).val>> ELSE <<>>)
         \o SentEnvelopes(Tail(results))

\* HttpPeerCommunication::send_messages: every message goes through
\* send_message, and the results are read once all of them are back
http_send_messages(own_peer_id, urls, messages, order) ==
    Bind([k \in 1..Len(messages) |->
             to_envelope(own_peer_id, urls, messages[order[k]])],
         LAMBDA results : [sent |-> SentEnvelopes(results),
                           result |-> first_error(results)])

SenderReply(op, result) ==
    [op |-> op, ok |-> result.ok,
     kind |-> IF result.ok THEN "" ELSE result.val.kind,
     peer_id |-> IF result.ok THEN 0 ELSE result.val.peer_id]

SenderIdle ==
    /\ sd_outbox = <<>>
    /\ sd_channel = <<>>
    /\ sd_reply = SenderReply("none", Ok(<<>>))

\* OutboxPeerMessagesSender::send_messages
OutboxSendMessages(messages) ==
    /\ \E envelopes \in {outbox_send_messages(server_peer_id, peer_urls,
                                              messages)} :
           /\ envelopes.ok => Len(sd_outbox) + Len(envelopes.val) <= MaxPending
           /\ sd_outbox' = IF envelopes.ok THEN sd_outbox \o envelopes.val
                           ELSE sd_outbox
           /\ sd_reply' = SenderReply("outbox", envelopes)
    /\ UNCHANGED <<sd_channel, notSender>>

\* HttpPeerCommunication::send_messages
HttpSendMessages(messages, order) ==
    /\ \E done \in {http_send_messages(server_peer_id, peer_urls,
                                       messages, order)} :
           /\ Len(sd_channel) + Len(done.sent) <= MaxPending
           /\ sd_channel' = sd_channel \o done.sent
           /\ sd_reply' = SenderReply("http", done.result)
    /\ UNCHANGED <<sd_outbox, notSender>>

\* the relayer takes the oldest envelope of the outbox
OutboxTake ==
    /\ sd_outbox # <<>>
    /\ sd_outbox' = Tail(sd_outbox)
    /\ sd_reply' = SenderReply("none", Ok(<<>>))
    /\ UNCHANGED <<sd_channel, notSender>>

\* the manager receives the oldest envelope of the channel
ChannelReceive ==
    /\ sd_channel # <<>>
    /\ sd_channel' = Tail(sd_channel)
    /\ sd_reply' = SenderReply("none", Ok(<<>>))
    /\ UNCHANGED <<sd_outbox, notSender>>

SenderNext ==
    \/ \E messages \in Batches : OutboxSendMessages(messages)
    \/ \E messages \in Batches :
           \E order \in CompletionOrders(Len(messages)) :
               HttpSendMessages(messages, order)
    \/ OutboxTake
    \/ ChannelReceive

\* ---------------------------------------------------------------------------
\* Part 9: calls of the functions of src/mpc
\* ---------------------------------------------------------------------------

\* largest modulus of a call
MaxModulus == 5

\* most points, and most coefficients of a polynomial, of a call
MaxPoints == 3

Moduli == 1..MaxModulus

Primes == {p \in 2..MaxModulus : \A d \in 2..(p - 1) : p % d # 0}

\* the sequences of at most MaxPoints residues
Residues(m) == UNION {[1..len -> 0..(m - 1)] : len \in 0..MaxPoints}

\* the polynomials Polynomial::new builds from them
Polynomials(m) == {PolynomialNew(coefficients) : coefficients \in Residues(m)}

\* the sequences of distinct non-zero points, in ascending order
PointLists(m) ==
    {points \in Residues(m) :
        /\ Len(points) >= 2
        /\ \A k \in 1..Len(points) : points[k] # 0
        /\ \A k \in 1..(Len(points) - 1) : points[k] < points[k + 1]}

MpcIdle ==
    /\ mp_op = "none"
    /\ mp_ints = <<>>
    /\ mp_seqs = <<>>
    /\ mp_ok = TRUE
    /\ mp_out = <<>>

\* a call of modulo_inv
CallModuloInv ==
    /\ mp_op = "none"
    /\ \E n \in Moduli, a \in 0..MaxModulus :
       \E result \in {modulo_inv(a, n)} :
           /\ mp_op' = "modulo_inv"
           /\ mp_ints' = <<a, n>>
           /\ mp_seqs' = <<>>
           /\ mp_ok' = result.ok
           /\ mp_out' = IF result.ok THEN <<<<result.val>>>> ELSE <<>>
    /\ UNCHANGED notMpc

\* a call of Polynomial::div on two polynomials built by Polynomial::new
CallDiv ==
    /\ mp_op = "none"
    /\ \E n \in Primes :
       \E self \in Polynomials(n), other \in Polynomials(n) :
       \E result \in {div(self, other, n)} :
           /\ mp_op' = "div"
           /\ mp_ints' = <<n>>
           /\ mp_seqs' = <<self, other>>
           /\ mp_ok' = result.ok
           /\ mp_out' = IF result.ok THEN result.val ELSE <<>>
    /\ UNCHANGED notMpc

\* a call of Polynomial::interpolate
CallInterpolate ==
    /\ mp_op = "none"
    /\ \E m \in Primes :
       \E points \in Residues(m), values \in Residues(m) :
       \E result \in {interpolate(points, values, m)} :
           /\ mp_op' = "interpolate"
           /\ mp_ints' = <<m>>
           /\ mp_seqs' = <<points, values>>
           /\ mp_ok' = result.ok
           /\ mp_out' = IF result.ok THEN <<result.val>> ELSE <<>>
    /\ UNCHANGED notMpc

\* a call of split_secret; the shares are kept in the order of the points
CallSplitSecret ==
    /\ mp_op = "none"
    /\ \E n \in Primes :
       \E points \in PointLists(n), secret \in 0..(n - 1) :
       \E coeffs \in [1..(Len(points) - 1) -> 0..(n - 1)] :
       \E shares \in {split_secret(secret, points, n, coeffs)} :
           /\ mp_op' = "split_secret"
           /\ mp_ints' = <<secret, n>>
           /\ mp_seqs' = <<points, coeffs>>
           /\ mp_ok' = TRUE
           /\ mp_out' = <<[k \in 1..Len(points) |-> shares[points[k]]]>>
    /\ UNCHANGED notMpc

\* a call of recover_secret on the shares (points[k], values[k])
CallRecoverSecret ==
    /\ mp_op = "none"
    /\ \E n \in Primes :
       \E points \in Residues(n) :
       \E values \in [1..Len(points) -> 0..(n - 1)] :
       \E result \in {recover_secret(
                          [k \in 1..Len(points) |->
                              [point |-> points[k], value |-> values[k]]], n)} :
           /\ mp_op' = "recover_secret"
           /\ mp_ints' = <<n>>
           /\ mp_seqs' = <<points, values>>
           /\ mp_ok' = result.ok
           /\ mp_out' = IF result.ok THEN <<<<result.val>>>> ELSE <<>>
    /\ UNCHANGED notMpc

\* the call is over
MpcReturn ==
    /\ mp_op # "none"
    /\ mp_op' = "none"
    /\ mp_ints' = <<>>
    /\ mp_seqs' = <<>>
    /\ mp_ok' = TRUE
    /\ mp_out' = <<>>
    /\ UNCHANGED notMpc

MpcNext ==
    \/ CallModuloInv
    \/ CallDiv
    \/ CallInterpolate
    \/ CallSplitSecret
    \/ CallRecoverSecret
    \/ MpcReturn

\* ---------------------------------------------------------------------------
\* Part 10: the background loops, their channels and their heartbeats
\* ---------------------------------------------------------------------------

\* most signals, or messages, waiting in a channel
MaxSignals == 2

\* the loops with the send of their heartbeat: the relayer, the dispatcher
\* and the orchestrator are pinged by an IntervalPing::run that awaits
\* send(()), the orchestrator of src/domains/additions/notifier.rs by a
\* run_interval_ping that calls try_send(()); the manager of
\* src/communication receives the messages themselves and has no heartbeat
LoopKinds ==
    {[loop |-> "relayer", beat |-> "send"],
     [loop |-> "dispatcher", beat |-> "send"],
     [loop |-> "orchestrator", beat |-> "send"],
     [loop |-> "orchestrator", beat |-> "try_send"],
     [loop |-> "manager", beat |-> "none"]}

\* how a piece of work of a loop may end: a batch or a round with a
\* transport error or with a repository error inside, or without error
WorkResults == {"ok", "transport error", "repository error"}

\* the Sender handles of a channel: those of the producers (the repository
\* of the outbox, the senders of messages) and the one of the heartbeat
Handles(kind) ==
    IF kind.beat = "none" THEN {"producer"} ELSE {"producer", "heartbeat"}

LoopsStart(kind) ==
    /\ bg_kind = kind
    /\ bg_pc = "receiving"
    /\ bg_queue = 0
    /\ bg_senders = Handles(kind)
    /\ bg_receiver = TRUE
    /\ bg_beat = IF kind.beat = "none" THEN "ended" ELSE "waiting"
    /\ bg_result = "ok"

LoopsIdle == LoopsStart([loop |-> "relayer", beat |-> "send"])

\* the body of the while loop of a run: where the loop stands after a piece
\* of work that ended with result.  The relayer and the dispatcher log the
\* error of poll_and_dispatch, the orchestrator logs and goes on to the next
\* process; the manager returns the error of send() with ?
work(loop, result) ==
    IF loop = "manager" /\ result = "transport error" THEN "ended"
    ELSE "receiving"

\* a producer sends a signal, or a message
LoopProduce ==
    /\ "producer" \in bg_senders
    /\ bg_receiver
    /\ bg_queue < MaxSignals
    /\ bg_queue' = bg_queue + 1
    /\ UNCHANGED <<bg_kind, bg_pc, bg_senders, bg_receiver, bg_beat, bg_result,
                   notLoops>>

\* interval.tick().await of the heartbeat
LoopBeatTick ==
    /\ bg_beat = "waiting"
    /\ bg_beat' = "sending"
    /\ UNCHANGED <<bg_kind, bg_pc, bg_queue, bg_senders, bg_receiver, bg_result,
                   notLoops>>

\* IntervalPing::run, channel_sender.send(()).await: waits while the channel
\* is full, logs the error when the receiver is gone, and loops
LoopBeatSend ==
    /\ bg_beat = "sending"
    /\ bg_kind.beat = "send"
    /\ bg_receiver => bg_queue < MaxSignals
    /\ bg_queue' = IF bg_receiver THEN bg_queue + 1 ELSE bg_queue
    /\ bg_beat' = "waiting"
    /\ UNCHANGED <<bg_kind, bg_pc, bg_senders, bg_receiver, bg_result, notLoops>>

\* run_interval_ping, channel_sender.try_send(()): skips the ping when the
\* channel is full and breaks when it is closed
LoopBeatTrySend ==
    /\ bg_beat = "sending"
    /\ bg_kind.beat = "try_send"
    /\ bg_queue' = IF bg_receiver /\ bg_queue < MaxSignals THEN bg_queue + 1
                   ELSE bg_queue
    /\ bg_beat' = IF bg_receiver THEN "waiting" ELSE "ended"
    /\ bg_senders' = IF bg_receiver THEN bg_senders
                     ELSE bg_senders \ {"heartbeat"}
    /\ UNCHANGED <<bg_kind, bg_pc, bg_receiver, bg_result, notLoops>>

\* recv().await returns Some: the loop takes a signal, or a message
LoopReceive ==
    /\ bg_pc = "receiving"
    /\ bg_queue > 0
    /\ bg_queue' = bg_queue - 1
    /\ bg_pc' = "working"
    /\ UNCHANGED <<bg_kind, bg_senders, bg_receiver, bg_beat, bg_result,
                   notLoops>>

\* the body of the loop ends: poll_and_dispatch, a round of the
\* orchestrator, or the send of a message by the manager
LoopWork(result) ==
    /\ bg_pc = "working"
    /\ bg_kind.loop = "manager" => result # "repository error"
    /\ bg_pc' = work(bg_kind.loop, result)
    /\ bg_receiver' = (work(bg_kind.loop, result) # "ended")
    /\ bg_result' = result
    /\ UNCHANGED <<bg_kind, bg_queue, bg_senders, bg_beat, notLoops>>

\* recv().await returns None: the channel is empty and every Sender is
\* dropped; the run returns
LoopExit ==
    /\ bg_pc = "receiving"
    /\ bg_queue = 0
    /\ bg_senders = {}
    /\ bg_pc' = "ended"
    /\ bg_receiver' = FALSE
    /\ UNCHANGED <<bg_kind, bg_queue, bg_senders, bg_beat, bg_result, notLoops>>

\* the producers are dropped with the application state
LoopDropProducer ==
    /\ "producer" \in bg_senders
    /\ bg_senders' = bg_senders \ {"producer"}
    /\ UNCHANGED <<bg_kind, bg_pc, bg_queue, bg_receiver, bg_beat, bg_result,
                   notLoops>>

\* the task of the heartbeat is dropped with the runtime
LoopDropBeat ==
    /\ bg_beat # "ended"
    /\ bg_beat' = "ended"
    /\ bg_senders' = bg_senders \ {"heartbeat"}
    /\ UNCHANGED <<bg_kind, bg_pc, bg_queue, bg_receiver, bg_result, notLoops>>

\* the task of the loop is dropped with the runtime, and its Receiver with it
LoopDropReceiver ==
    /\ bg_pc # "ended"
    /\ bg_pc' = "ended"
    /\ bg_receiver' = FALSE
    /\ UNCHANGED <<bg_kind, bg_queue, bg_senders, bg_beat, bg_result, notLoops>>

LoopsNext ==
    \/ LoopProduce
    \/ LoopBeatTick
    \/ LoopBeatSend
    \/ LoopBeatTrySend
    \/ LoopReceive
    \/ \E result \in WorkResults : LoopWork(result)
    \/ LoopExit
    \/ LoopDropProducer
    \/ LoopDropBeat
    \/ LoopDropReceiver

\* the tasks that are not dropped are scheduled: the heartbeat ticks and
\* sends, the loop receives, works and returns
LoopsFairness ==
    /\ WF_vars(LoopBeatTick)
    /\ WF_vars(LoopBeatSend)
    /\ WF_vars(LoopBeatTrySend)
    /\ WF_vars(LoopReceive)
    /\ WF_vars(\E result \in WorkResults : LoopWork(result))
    /\ WF_vars(LoopExit)

\* largest coefficient drawn when a process is created on the answering node
MaxProgressCoeff == 1

ProgressCoeffs == [1..Len(peer_ids) -> 0..MaxProgressCoeff]

\* a node that creates processes, receives the messages of its peers and
\* answers their progress requests
ProgressNext ==
    \/ \E id \in ProcessIds, input \in Inputs, coeffs \in ProgressCoeffs :
           HttpCreateProcess(id, input, coeffs)
    \/ \E id \in ProcessIds, header \in Headers,
          kind \in {"share", "shares_sum"}, value \in ShareValues :
           PeerMessageRead(id, header, kind, value)
    \/ \E m \in inbound : PeerMessageApply(m)
    \/ \E id \in ProcessIds, header \in Headers : HttpGetProgress(id, header)

\* one node of the domains variant
Init ==
    /\ NodeInit /\ RoutesInit /\ ApplyIdle /\ NetIdle /\ OutboxIdle /\ SenderIdle
    /\ MpcIdle /\ LoopsIdle

Next == NodeNext

Spec == Init /\ [][Next]_vars

\* one node of the routes variant
SpecRoutes == Init /\ [][RoutesNext]_vars

InitApply ==
    /\ NodeInit /\ RoutesInit /\ ApplyInit /\ NetIdle /\ OutboxIdle /\ SenderIdle
    /\ MpcIdle /\ LoopsIdle

\* share applications to one process
SpecApply == InitApply /\ [][ApplyNext]_vars

InitNet ==
    /\ NodeInit /\ RoutesInit /\ ApplyIdle /\ NetInit /\ OutboxIdle /\ SenderIdle
    /\ MpcIdle /\ LoopsIdle

\* the ensemble
SpecNet == InitNet /\ [][NetNext]_vars

\* the ensemble when every node is asked to create the process, the
\* dispatchers and the orchestrators keep running and the peers that hold
\* the process end up answering
NetFairness ==
    /\ \A n \in NetNodes :
           WF_vars(\E input \in Inputs, coeffs \in NetCoeffs :
                       NetCreate(n, input, coeffs))
    /\ \A n \in NetNodes : WF_vars(NetPollAll(n))
    /\ WF_vars(\E m \in net_msgs : NetDeliver(m))

SpecNetFair == InitNet /\ [][NetNext]_vars /\ NetFairness

\* the ids of a node that runs two processes
RoundIds == {"p1", "p2"}

\* the inputs of its processes
RoundInputs == {0}

\* the process the peers push their shares for
PushedIds == {"p1"}

\* the X-PEER-ID headers of the configured peers
PeerHeaders == {Some(<<DigitChars[id + 1]>>) : id \in PeerIds}

\* the node with two processes: creations, the share messages of the peers
\* and the rounds of its orchestrator
RoundsNext ==
    \/ \E id \in RoundIds, input \in RoundInputs, coeffs \in Coeffs :
           HttpCreateProcess(id, input, coeffs)
    \/ \E id \in PushedIds, header \in PeerHeaders,
          kind \in {"share"}, value \in ShareValues :
           PeerMessageRead(id, header, kind, value)
    \/ \E m \in inbound : PeerMessageApply(m)
    \/ OrchestratorStart
    \/ \E process \in orch_todo :
           \E fetched \in Fetches(process) : OrchestratorPoll(process, fetched)
    \/ OrchestratorApply

SpecRounds == Init /\ [][RoundsNext]_vars

\* one background loop with its heartbeat
InitLoops ==
    /\ NodeInit /\ RoutesInit /\ ApplyIdle /\ NetIdle /\ OutboxIdle /\ SenderIdle
    /\ MpcIdle
    /\ \E kind \in LoopKinds : LoopsStart(kind)

SpecLoops == InitLoops /\ [][LoopsNext]_vars /\ LoopsFairness

\* the outbox
SpecOutbox == Init /\ [][OutboxNext]_vars

\* the wake-up channel of the outbox
SpecWakeUp == Init /\ [][WakeUpNext]_vars

\* the outbox with a small batch size, under fairness
SpecRelayFair == Init /\ [][RelayNext]_vars /\ RelayFairness

\* the repository of the outbox
SpecRepository == Init /\ [][RepositoryNext]_vars

\* the ensemble with an outbox that sends nothing: every message is dropped
\* and only the rounds of the orchestrators move shares
PullNext ==
    \/ \E n \in NetNodes, input \in Inputs, coeffs \in NetCoeffs :
           NetCreate(n, input, coeffs)
    \/ \E m \in net_msgs : NetLose(m)
    \/ \E n \in NetNodes : NetPollAll(n)

\* every node creates the process at some time, and every orchestrator keeps
\* running its rounds, in which every peer answers
PullFairness ==
    /\ \A n \in NetNodes :
           WF_vars(\E input \in Inputs, coeffs \in NetCoeffs :
                       NetCreate(n, input, coeffs))
    /\ \A n \in NetNodes : WF_vars(NetPollAll(n))

SpecPullFair == InitNet /\ [][PullNext]_vars /\ PullFairness

\* the senders of peer messages
SpecSender == Init /\ [][SenderNext]_vars

\* one node answering the progress requests of its peers
SpecProgress == Init /\ [][ProgressNext]_vars

\* calls of the functions of src/mpc
SpecMpc == Init /\ [][MpcNext]_vars

(***************************************************************************)
(* Claims on one node.                                                     *)
(***************************************************************************)

\* C5: in every reachable AwaitingPeerSharesSum state received_shares holds
\* exactly n-1 entries and shares_sum is (own_share + the sum of the stored
\* received shares) mod p
SharesSumOverStoredShares ==
    \A id \in DOMAIN processes :
        LET process == processes[id]
        IN process.state.tag = "AwaitingPeerSharesSum"
           => /\ Cardinality(DOMAIN process.received_shares) = peers_count
              /\ process.state.shares_sum
                   = (process.own_share + SumValues(process.received_shares)) % PRIME

\* C6: a process in AwaitingPeerShares holds fewer than n-1 received shares
\* and a process in AwaitingPeerSharesSum fewer than n-1 received shares sums
IncompleteMapWhileAwaiting ==
    \A id \in DOMAIN processes :
        LET process == processes[id]
        IN /\ process.state.tag = "AwaitingPeerShares"
              => Cardinality(DOMAIN process.received_shares) < peers_count
           /\ process.state.tag = "AwaitingPeerSharesSum"
              => Cardinality(DOMAIN process.received_shares_sums) < peers_count

\* C10: create on a process id that exists answers the already-exists error
\* and leaves the existing process as it is, whatever its state
CreateOnExistingId ==
    [][\A id \in ProcessIds, input \in Inputs, coeffs \in Coeffs :
          (id \in DOMAIN processes /\ HttpCreateProcess(id, input, coeffs))
          => /\ outcome' = Outcome("create",
                                Err("Process with this ID already exists"))
             /\ processes' = processes]_vars

CreateOnExistingIdWitness ==
    /\ outcome.op = "create"
    /\ ~outcome.ok
    /\ \E id \in DOMAIN processes : processes[id].state.tag = "Completed"

\* C4: in every reachable Completed state final_sum is the value at 0 of the
\* polynomial interpolated through (server_peer_id, shares_sum) and the
\* points (j, received_shares_sums[j]) of the peers
FinalSumInterpolatesSharesSums ==
    \A id \in DOMAIN processes :
        LET process == processes[id]
        IN process.state.tag = "Completed"
           => process.state.final_sum
                = recover_secret(
                      <<[point |-> server_peer_id,
                         value |-> process.state.shares_sum]>>
                      \o SharesOf(process.received_shares_sums), PRIME).val

(***************************************************************************)
(* Claims on one node of the routes variant.                               *)
(***************************************************************************)
StateRank(process) ==
    IF process.state.tag = "AwaitingPeerShares" THEN 0
    ELSE IF process.state.tag = "AwaitingPeerSharesSum" THEN 1 ELSE 2

\* C3: whatever the interleaving of the operations, the state of a process
\* only moves AwaitingPeerShares -> AwaitingPeerSharesSum -> Completed, and
\* no operation other than delete changes a process that is Completed
StateNeverRegresses ==
    [][\A id \in (DOMAIN rt_processes) \cap (DOMAIN rt_processes') :
          /\ StateRank(rt_processes'[id]) >= StateRank(rt_processes[id])
          /\ rt_processes[id].state.tag = "Completed"
             => rt_processes'[id] = rt_processes[id]]_vars

\* the share value of peer from is stored in process id
ShareDelivered(id, from, value) ==
    /\ id \in DOMAIN rt_processes
    /\ from \in DOMAIN rt_processes[id].received_shares
    /\ rt_processes[id].received_shares[from] = value

\* C8: the second delivery of the same share value by the same peer for the
\* same process is accepted without error and leaves the process as the
\* first delivery left it
SecondDeliveryAccepted ==
    [][\A id \in ProcessIds, from \in PeerIds, value \in ShareValues,
          input \in Inputs, coeffs \in Coeffs :
          (/\ ShareDelivered(id, from, value)
           /\ RoutesReceive("share", id, from, value, input, coeffs))
          => /\ rt_outcome' = rt_outcome \/ rt_outcome'.ok
             /\ rt_processes' = rt_processes]_vars

\* C9: a share for a process that is not AwaitingPeerShares and a shares sum
\* for a process that is not AwaitingPeerSharesSum are answered with an error
\* and leave the process unchanged; a shares sum that arrives while the
\* process is AwaitingPeerShares is not stored
WrongStateRejected ==
    [][\A kind \in {"share", "shares_sum"}, id \in DOMAIN rt_processes :
          LET expected == IF kind = "share" THEN "AwaitingPeerShares"
                          ELSE "AwaitingPeerSharesSum"
          IN rt_processes[id].state.tag # expected
             => /\ \A from \in PeerIds, value \in ShareValues,
                      input \in Inputs, coeffs \in Coeffs :
                      RoutesReceive(kind, id, from, value, input, coeffs)
                      => /\ ~rt_outcome'.ok
                         /\ rt_inbound' = rt_inbound
                /\ \A m \in rt_inbound :
                      (m.kind = kind /\ m.request.process_id = id /\ RoutesApply(m))
                      => rt_processes' = rt_processes]_vars

(***************************************************************************)
(* Claims on the applications of shares to one process.                    *)
(***************************************************************************)

\* C7: after any sequence of share applications, in any order and with any
\* repetition, the process is the one a single application of the union of
\* their additions gives
ApplicationsAsOneOfUnion ==
    ap_process = ApplyShares(ap_initial, SharesFrom(ap_union))

\* the share of every peer has been applied and the process has moved on
ApplicationsAsOneOfUnionWitness ==
    /\ ap_union = PeerIds
    /\ ap_process.state.tag = "AwaitingPeerSharesSum"
    /\ ap_process.state.shares_sum # ap_initial.own_share

(***************************************************************************)
(* Claims on the ensemble.                                                 *)
(***************************************************************************)
\* the sum of the inputs of the nodes, mod p
NetSumOfInputs ==
    SumValues([n \in {j \in NetNodes : NetCreated(j)} |-> NetProcess(n).input])
        % PRIME

NetCompleted(n) == NetCreated(n) /\ NetProcess(n).state.tag = "Completed"

\* C1: every node that reaches Completed holds final_sum = the sum of the
\* inputs of all the nodes mod p
CompletedHoldSumOfInputs ==
    \A n \in NetNodes :
        NetCompleted(n) => NetProcess(n).state.final_sum = NetSumOfInputs

\* C2: once every node has created the process, every node eventually
\* reaches Completed
AllCreatedLeadsToAllCompleted ==
    (\A n \in NetNodes : NetCreated(n)) ~> (\A n \in NetNodes : NetCompleted(n))

\* the shares of node n's input: its own share at its own id and the shares
\* it sends at the ids of its peers
NetInputShares(n) ==
    SharesOf(MapInsertAll(NetProcess(n).shares_to_send,
                          [k \in {n} |-> NetProcess(n).own_share]))

\* C11, as stated: the input of every created process is congruent mod p to
\* the sum of own_share and of all the values of shares_to_send
InputIsSumOfShares ==
    \A n \in NetNodes :
        NetCreated(n)
        => NetProcess(n).input % PRIME
           = (NetProcess(n).own_share + SumValues(NetProcess(n).shares_to_send))
             % PRIME

\* C11, as the code has it: the input of every created process is the value
\* at 0 of the polynomial through its shares (own_share at server_peer_id,
\* shares_to_send at the peers' ids), which is what recover_secret returns
InputIsRecoveredFromShares ==
    \A n \in NetNodes :
        NetCreated(n)
        => recover_secret(NetInputShares(n), PRIME) = Ok(NetProcess(n).input % PRIME)

\* a process created from a polynomial that is not constant: its shares
\* differ from each other
InputIsRecoveredFromSharesWitness ==
    \E n \in NetNodes :
        /\ NetCreated(n)
        /\ \E k \in DOMAIN NetProcess(n).shares_to_send :
               NetProcess(n).shares_to_send[k] # NetProcess(n).own_share

(***************************************************************************)
(* Claims on the keys of received_shares.                                  *)
(***************************************************************************)

\* C12: after any sequence of inbound peer messages and orchestrator pulls,
\* the keys of received_shares of every process, and of every request about
\* to be applied to it, are ids of configured peers and never the node's own
\* server_peer_id
ReceivedSharesKeysArePeers ==
    /\ \A id \in DOMAIN processes :
           DOMAIN processes[id].received_shares \subseteq PeerIds \ {server_peer_id}
    /\ \A m \in inbound :
           m.kind = "share"
           => DOMAIN m.request.received_shares \subseteq PeerIds \ {server_peer_id}

\* a process holds the share of a peer after a request with the node's own id
\* or with the id of no peer was turned down
ReceivedSharesKeysArePeersWitness ==
    /\ outcome.op = "receive_share"
    /\ outcome.err = "Unauthorized"
    /\ \E id \in DOMAIN processes : DOMAIN processes[id].received_shares # {}

(***************************************************************************)
(* Claims on the outbox.                                                   *)
(***************************************************************************)

\* C13: an item is removed from the outbox only after a dispatch of that item
\* was answered with a 2xx response, or after a failed dispatch that is at
\* least its fifth; a transport error or a non-2xx response never removes it
\* as delivered
RemovedOnlyWhenDeliveredOrCapped ==
    [][\A answers \in [1..Len(ob_relayer.batch) -> Answers],
          completion \in Completions(ob_relayer.batch) :
          RelayerSettle(answers, completion)
          => \A k \in 1..Len(ob_relayer.batch) :
                 ob_relayer.batch[k].id \notin DOMAIN ob_items'
                 => \/ answers[k] = "2xx"
                    \/ ob_relayer.batch[k].attempts + 1 >= MaxAttempts]_vars

\* C14: in every reachable state, every item in the outbox has
\* attempts <= 5
AttemptsAtMostCap ==
    \A id \in DOMAIN ob_items : ob_items[id].attempts <= MaxAttempts

\* an item whose dispatches have failed up to the cap is in the outbox
AttemptsAtMostCapWitness ==
    \E id \in DOMAIN ob_items :
        /\ ob_items[id].attempts = MaxAttempts
        /\ ob_dispatches[id] = MaxAttempts

\* C15: an item whose dispatch has failed 5 times is removed by that 5th
\* failure: no item is dispatched more than 5 times and no item with 5
\* recorded failures is retained
RemovedByFifthFailure ==
    /\ \A id \in DOMAIN ob_dispatches : ob_dispatches[id] <= MaxAttempts
    /\ \A id \in DOMAIN ob_items : ob_items[id].attempts < MaxAttempts

\* the item is one get_items_ready_to_send returns, whatever the order in
\* which the map iterates
VisibleToRelayer(id) ==
    \A order \in Orders(ob_items) :
        \E k \in 1..Cardinality(DOMAIN ob_items) :
            /\ k <= Len(get_items_ready_to_send(ob_items, ob_now, batch_size, order))
            /\ get_items_ready_to_send(ob_items, ob_now, batch_size, order)[k].id = id

\* C16: when an enqueue call puts its wake-up signal in the channel, all the
\* items of that call have been inserted, and each of them that no dispatch
\* has touched yet has attempts = 0 and scheduled_at = created_at and is
\* visible to get_items_ready_to_send
EnqueueThenSignal ==
    [][\A call \in ob_calls :
          EnqueuePing(call)
          => \A id \in call :
                 /\ id \in DOMAIN ob_dispatches
                 /\ (id \in DOMAIN ob_items /\ ob_dispatches[id] = 0)
                    => /\ ob_items[id].attempts = 0
                       /\ ob_items[id].scheduled_at = ob_items[id].created_at
                       /\ VisibleToRelayer(id)]_vars

(***************************************************************************)
(* Claims on the wake-up channel.                                          *)
(***************************************************************************)

\* an enqueue call or the heartbeat is at its send
ProducerSending == ob_calls # {} \/ ob_beat = "sending"

\* C17: no producer of wake-up signals ever blocks: an enqueue call or the
\* heartbeat that is at its send is never held there by a full channel,
\* waiting for the relayer to consume a signal
NoProducerBlocks == ~(ProducerSending /\ ob_queue = WakeUpCapacity)

ReadyIds == {id \in DOMAIN ob_items : ob_items[id].scheduled_at <= ob_now}

\* C19: get_items_ready_to_send(limit) returns exactly min(limit, r) of the r
\* items whose scheduled_at <= now, those with the smallest scheduled_at, in
\* ascending scheduled_at order, never an item scheduled in the future, and
\* it does not modify the outbox
ReadyToSendIsEarliestReady ==
    [][\A limit \in Limits, order \in Orders(ob_items) :
          RepoGetItemsReadyToSend(limit, order)
          => LET got == ob_reply'.items
                 got_ids == {got[k].id : k \in 1..Len(got)}
             IN /\ Len(got) = IF limit < Cardinality(ReadyIds)
                              THEN limit ELSE Cardinality(ReadyIds)
                /\ Cardinality(got_ids) = Len(got)
                /\ got_ids \subseteq ReadyIds
                /\ \A k \in 1..Len(got) : got[k] = ob_items[got[k].id]
                /\ \A k \in 1..(Len(got) - 1) :
                       got[k].scheduled_at <= got[k + 1].scheduled_at
                /\ \A id \in ReadyIds \ got_ids, k \in 1..Len(got) :
                       got[k].scheduled_at <= ob_items[id].scheduled_at
                /\ ob_items' = ob_items]_vars

\* a call has returned the earlier of two ready items and left the later one
ReadyToSendIsEarliestReadyWitness ==
    /\ ob_reply.op = "get_items_ready_to_send"
    /\ Len(ob_reply.items) = 1
    /\ \E id \in ReadyIds :
           ob_items[id].scheduled_at > ob_reply.items[1].scheduled_at

\* C20: re_enqueue_envelopes(ids, delay) increases attempts by exactly 1 and
\* sets scheduled_at = now + delay for each listed item that is present, so
\* that get_items_ready_to_send does not return the item before delay has
\* elapsed; an id that is not in the outbox makes the call fail
ReEnqueueDelaysEachListedItem ==
    [][\A ids \in IdLists, delay \in Delays :
          RepoReEnqueue(ids, delay)
          => /\ \A id \in Range(ids) \cap DOMAIN ob_items :
                    /\ id \in DOMAIN ob_items'
                    /\ ob_items'[id].attempts = ob_items[id].attempts + 1
                    /\ ob_items'[id].scheduled_at = ob_now + delay
                    /\ \A earlier \in ob_now..(ob_now + delay - 1),
                          order \in Orders(ob_items') :
                           \A item \in Range(get_items_ready_to_send(
                                            ob_items', earlier, batch_size, order)) :
                               item.id # id
             /\ (\E id \in Range(ids) : id \notin DOMAIN ob_items)
                    => ~ob_reply'.ok]_vars
\* a batch with a message for the node itself or for an unknown peer
Refused(messages) ==
    \E k \in 1..Len(messages) :
        messages[k].peer_id = server_peer_id \/ messages[k].peer_id \notin PeerIds

\* C21: send_messages given a batch holding a message for the node itself or
\* for an unknown peer answers OwnPeerId or PeerNotFound and enqueues none of
\* the messages of the batch, and no envelope waiting to be sent is addressed
\* to the node itself.
RefusedBatchEnqueuesNothing ==
    /\ [](\A k \in 1..Len(sd_outbox) : sd_outbox[k].peer_id # server_peer_id)
    /\ [](\A k \in 1..Len(sd_channel) : sd_channel[k].peer_id # server_peer_id)
    /\ [][\A messages \in Batches :
            (/\ Refused(messages)
             /\ \/ OutboxSendMessages(messages)
                \/ \E order \in CompletionOrders(Len(messages)) :
                       HttpSendMessages(messages, order))
            => (/\ ~sd_reply'.ok
                /\ sd_reply'.kind \in {"OwnPeerId", "PeerNotFound"}
                /\ sd_outbox' = sd_outbox
                /\ sd_channel' = sd_channel)]_vars

\* the header values that are a decimal numeral of the id of a configured peer
PeerNumerals ==
    UNION {{<<char>>, <<"0", char>>, <<"+", char>>} :
              char \in {DigitChars[id + 1] : id \in PeerIds}}

\* C22: a peer-to-peer request whose X-PEER-ID header is missing, is no
\* number, or is not the id of a configured peer is answered Unauthorized
\* (status 401) and leaves the processes, and the requests being handled,
\* as they were.
StrangerIsTurnedDown ==
    [][\A id \in ProcessIds, header \in Headers,
          kind \in {"share", "shares_sum"}, value \in ShareValues :
            (/\ ~(header.some /\ header.val \in PeerNumerals)
             /\ PeerMessageRead(id, header, kind, value))
            => (/\ outcome' = Outcome("receive_" \o kind, Err("Unauthorized"))
                /\ processes' = processes
                /\ inbound' = inbound
                /\ failures_attempts' = failures_attempts)]_vars

\* a request without a usable header was turned down while a process was
\* waiting for shares
StrangerIsTurnedDownWitness ==
    /\ outcome.err = "Unauthorized"
    /\ outcome.op = "receive_shares_sum"
    /\ \E id \in DOMAIN processes :
           processes[id].state.tag = "AwaitingPeerSharesSum"

\* process with the fields a progress answer must not depend on replaced
Secrets(process, caller) ==
    {[process EXCEPT !.input = input, !.own_share = own_share,
                     !.shares_to_send = [peer \in DOMAIN @ |->
                         IF peer = caller THEN @[peer] ELSE share]] :
        input \in 0..(PRIME - 1), own_share \in 0..(PRIME - 1),
        share \in 0..(PRIME - 1)}

\* C23: the progress answered to caller c for process P is shares_to_send[c]
\* with the shares_sum of P, present exactly when P is AwaitingPeerSharesSum or
\* Completed, and it is the same whatever the input, the own_share and the
\* shares meant for the other peers are.
ProgressAnswersOnlyCallersShare ==
    [][\A id \in DOMAIN processes, header \in Headers :
          (/\ header.some
           /\ header.val \in PeerNumerals
           /\ HttpGetProgress(id, header))
          => \E caller \in PeerIds :
                 /\ parse_u8(header.val) = Ok(caller)
                 /\ outcome'.ok
                 /\ outcome'.body.some
                 /\ outcome'.body.val.share = processes[id].shares_to_send[caller]
                 /\ outcome'.body.val.shares_sum.some
                        = (processes[id].state.tag
                              \in {"AwaitingPeerSharesSum", "Completed"})
                 /\ outcome'.body.val.shares_sum.some
                        => outcome'.body.val.shares_sum.val
                              = processes[id].state.shares_sum
                 /\ \A other \in Secrets(processes[id], caller) :
                        AdditionProcessProgress(other, caller)
                            = outcome'.body.val]_vars

\* a peer was answered a share that is not the own share of the node, by a
\* process that holds a shares sum
ProgressAnswersOnlyCallersShareWitness ==
    /\ outcome.op = "progress"
    /\ outcome.body.some
    /\ outcome.body.val.shares_sum.some
    /\ \E id \in DOMAIN processes :
           /\ processes[id].own_share # outcome.body.val.share
           /\ processes[id].input # outcome.body.val.share
           /\ \E peer \in DOMAIN processes[id].shares_to_send :
                  processes[id].shares_to_send[peer] # outcome.body.val.share

\* C24: with an outbox that delivers nothing, once every node has created the
\* process every node eventually reaches Completed, however long the creations
\* were apart.
PulledToCompletion ==
    [](((\A n \in NetNodes : NetCreated(n)) /\ net_msgs = {})
         => <>(\A n \in NetNodes : NetCompleted(n)))

\* the orders in which a map of n entries can be iterated
IterationOrders(n) ==
    {order \in [1..n -> 1..n] : \A i, j \in 1..n : order[i] = order[j] => i = j}

\* C25: for a prime p, a secret in [0, p), at least two distinct non-zero
\* points and any random coefficients, recover_secret of all the shares of
\* split_secret, in whatever order the map hands them over, is the secret.
SplitThenRecoverIsSecret ==
    mp_op = "split_secret"
    => \A order \in IterationOrders(Len(mp_seqs[1])) :
           recover_secret([k \in 1..Len(mp_seqs[1]) |->
                              [point |-> mp_seqs[1][order[k]],
                               value |-> mp_out[1][order[k]]]], mp_ints[2])
               = Ok(mp_ints[1])

\* three shares of a non-zero secret that all differ from it
SplitThenRecoverIsSecretWitness ==
    /\ mp_op = "split_secret"
    /\ Len(mp_seqs[1]) = 3
    /\ mp_ints[1] # 0
    /\ \A k \in 1..3 : mp_out[1][k] # mp_ints[1]
    /\ mp_seqs[2][2] # 0

\* the coefficient choices with which split_secret of secret, over the points
\* of the call, gives the shares of the call at every point but the one left
\* out
CoefficientsGiving(secret, left_out) ==
    {coeffs \in [1..(Len(mp_seqs[1]) - 1) -> 0..(mp_ints[2] - 1)] :
        \A k \in 1..Len(mp_seqs[1]) :
            k # left_out
            => split_secret(secret, mp_seqs[1], mp_ints[2], coeffs)[mp_seqs[1][k]]
               = mp_out[1][k]}

\* C26: over n distinct non-zero points, whichever n - 1 shares of a call are
\* seen, every secret of [0, p) gives them with as many coefficient choices
\* as the secret of the call does.
AllButOneShareFitEverySecret ==
    mp_op = "split_secret"
    => \A left_out \in 1..Len(mp_seqs[1]), secret \in 0..(mp_ints[2] - 1) :
           Cardinality(CoefficientsGiving(secret, left_out))
               = Cardinality(CoefficientsGiving(mp_ints[1], left_out))

\* shares over three points, computed with a polynomial of degree two
AllButOneShareFitEverySecretWitness ==
    /\ mp_op = "split_secret"
    /\ Len(mp_seqs[1]) = 3
    /\ mp_seqs[2][2] # 0
    /\ mp_out[1][1] # mp_out[1][2]
    /\ mp_ints[2] = 5

Distinct(points) ==
    \A i, j \in 1..Len(points) : points[i] = points[j] => i = j

\* C27: for distinct points of [0, p) and values of [0, p), interpolate
\* returns a polynomial that takes each value at its point and has fewer
\* coefficients than, or as many as, there are points (degree below their
\* number).
InterpolationThroughEveryPoint ==
    (/\ mp_op = "interpolate"
     /\ Len(mp_seqs[1]) = Len(mp_seqs[2])
     /\ Distinct(mp_seqs[1]))
    => /\ mp_ok
       /\ Len(mp_out[1]) <= Len(mp_seqs[1])
       /\ \A i \in 1..Len(mp_seqs[1]) :
              evaluate(mp_out[1], mp_seqs[1][i], mp_ints[1]) = mp_seqs[2][i]

\* a polynomial of degree two through three points, zero among them
InterpolationThroughEveryPointWitness ==
    /\ mp_op = "interpolate"
    /\ mp_ok
    /\ Len(mp_seqs[1]) = 3
    /\ Distinct(mp_seqs[1])
    /\ mp_seqs[1][2] = 0
    /\ Len(mp_out[1]) = 3

\* the coefficient of x^k of a polynomial
Coefficient(poly, k) == IF k + 1 <= Len(poly) THEN poly[k + 1] ELSE 0

RECURSIVE ProductCoefficient(_, _, _, _)
\* the sum of b_i * q_(k - i) for i from 0 to upto
ProductCoefficient(b, q, k, upto) ==
    IF upto < 0 THEN 0
    ELSE Coefficient(b, upto) * Coefficient(q, k - upto)
         + ProductCoefficient(b, q, k, upto - 1)

\* C28: div of a by a non-zero b returns q and r with a = b * q + r,
\* coefficient by coefficient modulo p, and r of lower degree than b; a zero
\* divisor gives an error.
DivisionGivesQuotientAndRemainder ==
    mp_op = "div"
    => IF mp_seqs[2] = <<>>
       THEN ~mp_ok
       ELSE /\ mp_ok
            /\ Len(mp_out[2]) < Len(mp_seqs[2])
            /\ \A k \in 0..(2 * MaxPoints) :
                   Coefficient(mp_seqs[1], k) % mp_ints[1]
                       = (ProductCoefficient(mp_seqs[2], mp_out[1], k, k)
                          + Coefficient(mp_out[2], k)) % mp_ints[1]

\* a division of degree two by degree one that leaves a remainder
DivisionGivesQuotientAndRemainderWitness ==
    /\ mp_op = "div"
    /\ mp_ok
    /\ Len(mp_seqs[1]) = 3
    /\ Len(mp_seqs[2]) = 2
    /\ mp_seqs[2][2] > 1
    /\ mp_out[2] # <<>>

\* the greatest common divisor, gcd(0, n) being n
Gcd(a, n) ==
    CHOOSE d \in 1..(a + n) :
        /\ a % d = 0
        /\ n % d = 0
        /\ \A e \in 1..(a + n) : (a % e = 0 /\ n % e = 0) => e <= d

\* C29: modulo_inv(a, p) with a in [1, p) and gcd(a, p) = 1 returns v in
\* [0, p) with a * v mod p = 1; with a = 0 or gcd(a, p) # 1 it returns an
\* error.
ModuloInvIsInverse ==
    mp_op = "modulo_inv"
    => /\ (mp_ints[1] \in 1..(mp_ints[2] - 1) /\ Gcd(mp_ints[1], mp_ints[2]) = 1)
          => /\ mp_ok
             /\ mp_out[1][1] \in 0..(mp_ints[2] - 1)
             /\ (mp_ints[1] * mp_out[1][1]) % mp_ints[2] = 1
       /\ (mp_ints[1] = 0 \/ Gcd(mp_ints[1], mp_ints[2]) # 1) => ~mp_ok

\* an inverse that is neither 1 nor the number itself
ModuloInvIsInverseWitness ==
    /\ mp_op = "modulo_inv"
    /\ mp_ok
    /\ mp_ints[1] > 1
    /\ mp_ints[1] < mp_ints[2]
    /\ mp_out[1][1] # mp_ints[1]

\* C30: interpolate returns an error when two of the points are equal or when
\* there are not as many values as points, and recover_secret returns an
\* error when two of the shares have the same point.
BadPointsGiveAnError ==
    /\ (/\ mp_op = "interpolate"
        /\ (Len(mp_seqs[1]) # Len(mp_seqs[2]) \/ ~Distinct(mp_seqs[1])))
       => ~mp_ok
    /\ (mp_op = "recover_secret" /\ ~Distinct(mp_seqs[1])) => ~mp_ok

\* recover_secret refused three shares of which the last two have one point
BadPointsGiveAnErrorWitness ==
    /\ mp_op = "recover_secret"
    /\ ~mp_ok
    /\ Len(mp_seqs[1]) = 3
    /\ mp_seqs[1][1] # mp_seqs[1][2]
    /\ mp_seqs[1][2] = mp_seqs[1][3]


\* C31: when a batch is settled, what happens to each of its items is decided
\* by the result of that item's own dispatch, whatever the order in which the
\* dispatches complete: the item is removed when its dispatch returned Ok or
\* its attempts were at the cap, and is rescheduled with one more attempt
\* otherwise
OutcomeDecidedByOwnDispatch ==
    [][\A answers \in [1..Len(ob_relayer.batch) -> Answers],
          completion \in Completions(ob_relayer.batch) :
          RelayerSettle(answers, completion)
          => \A k \in 1..Len(ob_relayer.batch) :
                 IF classify(ob_relayer.batch[k].attempts,
                             dispatch(answers[k])) = "retried"
                 THEN /\ ob_relayer.batch[k].id \in DOMAIN ob_items'
                      /\ ob_items'[ob_relayer.batch[k].id].attempts
                             = ob_relayer.batch[k].attempts + 1
                 ELSE ob_relayer.batch[k].id \notin DOMAIN ob_items']_vars

\* C32: with the heartbeat running, an item is dispatched only once its
\* scheduled_at is reached, every rescheduled item is dispatched again, and
\* every item of the outbox eventually leaves it, also when more items are
\* ready than a batch takes
EveryItemLeavesTheOutbox ==
    /\ [](\A k \in 1..Len(ob_relayer.batch) :
              ob_relayer.batch[k].scheduled_at <= ob_now)
    /\ \A id \in OutboxIds :
           (id \in DOMAIN ob_items) ~> (id \notin DOMAIN ob_items)
    /\ \A id \in OutboxIds :
           (/\ id \in DOMAIN ob_items
            /\ ob_items[id].attempts >= 1
            /\ \A k \in 1..Len(ob_relayer.batch) : ob_relayer.batch[k].id # id)
           ~> (\E k \in 1..Len(ob_relayer.batch) : ob_relayer.batch[k].id = id)

\* a rescheduled item is dispatched again, alone in its batch, while another
\* item is ready as well
EveryItemLeavesTheOutboxWitness ==
    /\ ob_relayer.pc = "dispatching"
    /\ Len(ob_relayer.batch) = LiveBatch
    /\ \A k \in 1..Len(ob_relayer.batch) : ob_relayer.batch[k].attempts >= 1
    /\ \E id \in DOMAIN ob_items :
           /\ ob_items[id].scheduled_at <= ob_now
           /\ \A k \in 1..Len(ob_relayer.batch) : ob_relayer.batch[k].id # id

\* the failure counter of a process id: no entry counts as 0
FailuresOf(failures, id) == IF id \in DOMAIN failures THEN failures[id] ELSE 0

\* the call of the repository that ends a poll: its result is the result of
\* poll_and_update_process
PollUpdate(procs, m) ==
    IF m.kind = "AwaitingPeerShares" THEN receive_shares(procs, m.request)
    ELSE receive_shares_sums(procs, m.request)

\* C33: every process the orchestrator polls in a round is not Completed and
\* has a failure counter below 5; a poll that fails raises the counter of its
\* process by exactly 1 and no other counter, a poll that succeeds raises
\* none; no counter goes above 5, so a process whose counter is 5 is not
\* fetched again
PollsOnlyBelowTheFailureCap ==
    /\ [](\A process \in orch_todo :
              /\ process.state.tag # "Completed"
              /\ FailuresOf(failures_attempts, process.id) < MaxFailures)
    /\ [](\A id \in DOMAIN failures_attempts :
              failures_attempts[id] <= MaxFailures)
    /\ [][\A process \in orch_todo : \A fetched \in Fetches(process) :
              OrchestratorPoll(process, fetched)
              => \A id \in ProcessIds :
                     FailuresOf(failures_attempts', id)
                     = FailuresOf(failures_attempts, id)
                       + (IF id = process.id /\ orch_pc' # "apply" THEN 1 ELSE 0)]_vars
    /\ [][OrchestratorApply
          => \A id \in ProcessIds :
                 FailuresOf(failures_attempts', id)
                 = FailuresOf(failures_attempts, id)
                   + (IF id = orch_request.val.request.process_id
                         /\ ~PollUpdate(processes, orch_request.val).result.ok
                      THEN 1 ELSE 0)]_vars
    /\ [][orch_pc \notin {"poll", "apply"}
          => failures_attempts' = failures_attempts]_vars

\* a process that is still ongoing has used up its five failures and the
\* orchestrator is between two rounds
PollsOnlyBelowTheFailureCapWitness ==
    /\ \E id \in DOMAIN processes :
           /\ processes[id].state.tag # "Completed"
           /\ FailuresOf(failures_attempts, id) = MaxFailures
    /\ orch_pc = "idle"
    /\ orch_todo = {}

\* the shares, or the shares sums, a request of the orchestrator carries
Contributions(m) ==
    IF m.kind = "AwaitingPeerShares" THEN m.request.received_shares
    ELSE m.request.received_shares_sums

\* the shares, or the shares sums, a process holds
Held(process, kind) ==
    IF kind = "AwaitingPeerShares" THEN process.received_shares
    ELSE process.received_shares_sums

\* C34: a poll in which at least one missing peer answers raises no failure
\* counter and merges what the peers answered into the process; and a poll
\* that fails leaves the other processes of the round to be polled
FailureIsolation ==
    /\ [][\A process \in orch_todo : \A fetched \in Fetches(process) :
              (OrchestratorPoll(process, fetched) /\ fetched.ok)
              => /\ failures_attempts' = failures_attempts
                 /\ orch_pc' = "apply"
                 /\ \A peer \in DOMAIN fetched.val :
                        /\ peer \in DOMAIN Contributions(orch_request'.val)
                        /\ Contributions(orch_request'.val)[peer]
                               = fetched.val[peer]]_vars
    /\ [][OrchestratorApply
          => /\ failures_attempts' = failures_attempts
             /\ orch_request.val.request.process_id \in DOMAIN processes'
             /\ \A peer \in DOMAIN Contributions(orch_request.val) :
                    LET held == Held(processes'[orch_request.val.request.process_id],
                                     orch_request.val.kind)
                    IN /\ peer \in DOMAIN held
                       /\ held[peer] = Contributions(orch_request.val)[peer]]_vars
    /\ [][\A process \in orch_todo : \A fetched \in Fetches(process) :
              OrchestratorPoll(process, fetched)
              => /\ orch_todo' = orch_todo \ {process}
                 /\ (orch_todo' # {} /\ orch_pc' # "apply") => orch_pc' = "poll"]_vars
    /\ [][OrchestratorApply
          => /\ orch_todo' = orch_todo
             /\ orch_todo' # {} => orch_pc' = "poll"]_vars

\* C35: no error ends a background loop: after a piece of work that met a
\* transport error or a repository error the loop is at its recv() again, and
\* under fairness what is sent to it later is received
NoErrorStopsALoop ==
    /\ [][\A result \in WorkResults :
              LoopWork(result) => (bg_pc' = "receiving" /\ bg_receiver')]_vars
    /\ (bg_result # "ok" /\ bg_pc = "receiving" /\ bg_queue > 0)
           ~> (bg_pc \in {"working", "ended"})

\* C36: once every Sender of its channel is dropped the loop ends, and once
\* the Receiver of its channel is dropped the heartbeat ends
ClosedChannelEndsTheTasks ==
    /\ (bg_senders = {}) ~> (bg_pc = "ended")
    /\ (bg_kind.beat # "none" /\ ~bg_receiver) ~> (bg_beat = "ended")

\* a polynomial in canonical form over the field of n elements
Canonical(poly, n) ==
    /\ \A k \in 1..Len(poly) : poly[k] \in 0..(n - 1)
    /\ poly = <<>> \/ poly[Len(poly)] # 0

\* b divides a exactly over the field of n elements: a = b * q for some q
Divides(b, a, n) ==
    \E q \in Polynomials(n) :
        \A k \in 0..(2 * MaxPoints) :
            Coefficient(a, k) % n = ProductCoefficient(b, q, k, k) % n

\* C37: the quotient and the remainder of div, the polynomial of interpolate
\* and the one interpolate_from_roots builds from its points are canonical
\* over the field (each coefficient in [0, p), the last one not 0), and the
\* remainder of an exact division is the empty vector
ProducedPolynomialsAreCanonical ==
    /\ (mp_op = "div" /\ mp_ok)
       => /\ Canonical(mp_out[1], mp_ints[1])
          /\ Canonical(mp_out[2], mp_ints[1])
          /\ Divides(mp_seqs[2], mp_seqs[1], mp_ints[1]) => mp_out[2] = <<>>
    /\ mp_op = "interpolate"
       => Canonical(interpolate_from_roots(mp_seqs[1], mp_ints[1]), mp_ints[1])
    /\ (mp_op = "interpolate" /\ mp_ok) => Canonical(mp_out[1], mp_ints[1])

\* the preamble of a process of the routes variant
Preamble(process) ==
    <<process.input, process.own_share, process.shares_to_send>>

\* every entry of the map kept is an entry of the map now
KeptIn(kept, now) ==
    \A k \in DOMAIN kept : k \in DOMAIN now /\ now[k] = kept[k]

\* C38: while a process exists for an id, no step changes its input, its
\* own_share or its shares_to_send, and no step loses a share or a shares
\* sum it has recorded, also when several handlers that found no process
\* bootstrap the same id
PreambleNeverChanges ==
    [][\A id \in (DOMAIN rt_processes) \cap (DOMAIN rt_processes') :
          /\ Preamble(rt_processes'[id]) = Preamble(rt_processes[id])
          /\ KeptIn(rt_processes[id].received_shares,
                    rt_processes'[id].received_shares)
          /\ KeptIn(rt_processes[id].received_shares_sums,
                    rt_processes'[id].received_shares_sums)]_vars

\* C39: a call of re_enqueue_envelopes that fails because one of its ids is
\* not in the outbox leaves the attempts and the scheduled_at of every item
\* as they were
FailedReEnqueueChangesNothing ==
    [][\A ids \in IdLists, delay \in Delays :
          (RepoReEnqueue(ids, delay) /\ ~ob_reply'.ok) => ob_items' = ob_items]_vars

\* C40: no step lowers the failure counter of a process id or removes its
\* entry, whether a poll succeeds or the process is deleted or created
\* again, and an id whose counter is 5 is in no round
FailuresAreNeverForgotten ==
    /\ [][\A id \in ProcessIds :
              /\ id \in DOMAIN failures_attempts
                 => id \in DOMAIN failures_attempts'
              /\ FailuresOf(failures_attempts', id)
                     >= FailuresOf(failures_attempts, id)]_vars
    /\ [](\A id \in ProcessIds :
              FailuresOf(failures_attempts, id) = MaxFailures
              => \A process \in orch_todo : process.id # id)

\* a process was polled in vain five times and then deleted: its id has no
\* process any more and its counter is still 5
FailuresAreNeverForgottenWitness ==
    \E id \in ProcessIds :
        /\ id \notin DOMAIN processes
        /\ FailuresOf(failures_attempts, id) = MaxFailures
        /\ outcome.op = "delete" /\ outcome.ok

====
